---- MODULE Spec2Model ----
(***************************************************************************)
(* The temporal action-classification engine of the dual pose tracker:     *)
(* the rule chain of action_classifier.classify_action_simple and the      *)
(* per-side hysteresis and rep counting of DualPoseTracker.process_frame.  *)
(*                                                                         *)
(* A Feature Frame is a function from the keys that are present to         *)
(* integers: joint angles in whole degrees, *_y positions in hundredths of *)
(* the frame height.  An absent key is absent from the DOMAIN, as in the   *)
(* Python dict (frame.get(key) is None).  Arithmetic is exact; the rule    *)
(* thresholds on ratios are cross-multiplied into integer inequalities.    *)
(***************************************************************************)
EXTENDS Integers, Sequences, FiniteSets, TLC

Sides == {"left", "right"}

Labels == {"unknown", "crouch", "mountain_climber", "run", "jump"}

Counted == {"crouch", "mountain_climber", "run", "jump"}

\* deque(maxlen=5)
W == 5

crouch_buffer_length == 8

mountain_climber_buffer_length == 2

run_buffer_length == 0

jump_buffer_length == 0

\* ---------------------------------------------------------------- bounds

\* ProcessFrame is not taken once a side has counted this many reps.
MaxReps == 2

\* ---------------------------------------------------------------- helpers

Has(frame, key) == key \in DOMAIN frame

Abs(x) == IF x < 0 THEN 0 - x ELSE x

Min2(a, b) == IF a < b THEN a ELSE b

Max2(a, b) == IF a > b THEN a ELSE b

RECURSIVE SeqSum(_)
SeqSum(s) == IF s = <<>> THEN 0 ELSE Head(s) + SeqSum(Tail(s))

SeqMax(s) == CHOOSE x \in {s[i] : i \in DOMAIN s} : \A y \in {s[i] : i \in DOMAIN s} : y <= x

SeqMin(s) == CHOOSE x \in {s[i] : i \in DOMAIN s} : \A y \in {s[i] : i \in DOMAIN s} : x <= y

\* angle_history[-n:]
LastN(h, n) == SubSeq(h, Max2(1, Len(h) - n + 1), Len(h))

Latest(h) == h[Len(h)]

\* ------------------------------------------------ classify_action_simple

\* Faulty variant: the crouch threshold of an earlier revision (110 degrees).
knees_bent_110(cur) ==
    /\ Has(cur, "left_knee_angle") /\ Has(cur, "right_knee_angle")
    /\ cur.left_knee_angle < 110 /\ cur.right_knee_angle < 110

knees_bent(cur) ==
    /\ Has(cur, "left_knee_angle") /\ Has(cur, "right_knee_angle")
    /\ cur.left_knee_angle < 120 /\ cur.right_knee_angle < 120

in_mountain_climber_position(cur) ==
    /\ Has(cur, "left_elbow_angle") /\ Has(cur, "right_elbow_angle")
    /\ Has(cur, "left_shoulder_angle") /\ Has(cur, "right_shoulder_angle")
    /\ cur.left_elbow_angle > 150 /\ cur.right_elbow_angle > 150
    /\ cur.left_shoulder_angle < 120 /\ cur.right_shoulder_angle < 120

is_crouching(cur) == knees_bent(cur) /\ ~in_mountain_climber_position(cur)

recent_crouch(frame) ==
    /\ Has(frame, "left_knee_angle") /\ Has(frame, "right_knee_angle")
    /\ frame.left_knee_angle < 130 /\ frame.right_knee_angle < 130

recent_mountain_climber(frame) ==
    /\ Has(frame, "left_elbow_angle") /\ Has(frame, "right_elbow_angle")
    /\ Has(frame, "left_shoulder_angle") /\ Has(frame, "right_shoulder_angle")
    /\ frame.left_elbow_angle > 150 /\ frame.right_elbow_angle > 150
    /\ frame.left_shoulder_angle < 125 /\ frame.right_shoulder_angle < 125

action_buffer_active(h, prev) ==
    /\ prev \in {"crouch", "mountain_climber"}
    /\ Len(h) >= 2
    /\ \E i \in 0 .. (Min2(3, Len(h)) - 1) :
          recent_crouch(h[Len(h) - i]) \/ recent_mountain_climber(h[Len(h) - i])

straight_arms(cur) ==
    /\ Has(cur, "left_elbow_angle") /\ Has(cur, "right_elbow_angle")
    /\ cur.left_elbow_angle > 160 /\ cur.right_elbow_angle > 160

hunched_back(cur) ==
    /\ Has(cur, "left_shoulder_angle") /\ Has(cur, "right_shoulder_angle")
    /\ cur.left_shoulder_angle < 115 /\ cur.right_shoulder_angle < 115

HipValues(h, key) ==
    LET present == SelectSeq(LastN(h, 3), LAMBDA f : Has(f, key))
    IN  [i \in DOMAIN present |-> present[i][key]]

\* Faulty variant: a difference of 15 degrees between the hips is enough.
alternating_hips_from_15(h) ==
    LET cur == Latest(h)
        valid_left_hips == HipValues(h, "left_hip_angle")
        valid_right_hips == HipValues(h, "right_hip_angle")
    IN  /\ Len(h) >= 3
        /\ Has(cur, "left_hip_angle") /\ Has(cur, "right_hip_angle")
        /\ Len(valid_left_hips) >= 3 /\ Len(valid_right_hips) >= 3
        /\ Abs(cur.left_hip_angle - cur.right_hip_angle) >= 15
        /\ LET left_hip_trend ==
                   valid_left_hips[Len(valid_left_hips)] - valid_left_hips[1]
               right_hip_trend ==
                   valid_right_hips[Len(valid_right_hips)] - valid_right_hips[1]
           IN  \/ Abs(SeqMax(valid_left_hips) - SeqMin(valid_left_hips)) > 12
               \/ Abs(SeqMax(valid_right_hips) - SeqMin(valid_right_hips)) > 12
               \/ /\ left_hip_trend * right_hip_trend < 0
                  /\ (Abs(left_hip_trend) > 8 \/ Abs(right_hip_trend) > 8)

\* Faulty variant: hips that move in opposite directions do not count unless
\* one of them moves by more than 12 degrees.
alternating_hips_range_only(h) ==
    LET cur == Latest(h)
        valid_left_hips == HipValues(h, "left_hip_angle")
        valid_right_hips == HipValues(h, "right_hip_angle")
    IN  /\ Len(h) >= 3
        /\ Has(cur, "left_hip_angle") /\ Has(cur, "right_hip_angle")
        /\ Len(valid_left_hips) >= 3 /\ Len(valid_right_hips) >= 3
        /\ Abs(cur.left_hip_angle - cur.right_hip_angle) > 15
        /\ \/ Abs(SeqMax(valid_left_hips) - SeqMin(valid_left_hips)) > 12
           \/ Abs(SeqMax(valid_right_hips) - SeqMin(valid_right_hips)) > 12

alternating_hips(h) ==
    LET cur == Latest(h)
        valid_left_hips == HipValues(h, "left_hip_angle")
        valid_right_hips == HipValues(h, "right_hip_angle")
    IN  /\ Len(h) >= 3
        /\ Has(cur, "left_hip_angle") /\ Has(cur, "right_hip_angle")
        /\ Len(valid_left_hips) >= 3 /\ Len(valid_right_hips) >= 3
        /\ LET alternating_position ==
                   Abs(cur.left_hip_angle - cur.right_hip_angle) > 15
               left_hip_range == Abs(SeqMax(valid_left_hips) - SeqMin(valid_left_hips))
               right_hip_range == Abs(SeqMax(valid_right_hips) - SeqMin(valid_right_hips))
               significant_movement == left_hip_range > 12 \/ right_hip_range > 12
               left_hip_trend ==
                   valid_left_hips[Len(valid_left_hips)] - valid_left_hips[1]
               right_hip_trend ==
                   valid_right_hips[Len(valid_right_hips)] - valid_right_hips[1]
               opposite_movement ==
                   /\ left_hip_trend * right_hip_trend < 0
                   /\ (Abs(left_hip_trend) > 8 \/ Abs(right_hip_trend) > 8)
           IN  alternating_position /\ (significant_movement \/ opposite_movement)

mountain_climber_detected(h) ==
    /\ straight_arms(Latest(h))
    /\ hunched_back(Latest(h))
    /\ (alternating_hips(h) \/ Len(h) < 3)

\* Faulty variant: an absent knee angle counts as a straight leg (180 degrees).
alternating_knees_default(cur) ==
    LET left_knee == IF Has(cur, "left_knee_angle") THEN cur.left_knee_angle ELSE 180
        right_knee == IF Has(cur, "right_knee_angle") THEN cur.right_knee_angle ELSE 180
    IN  Abs(left_knee - right_knee) > 20

alternating_knees(cur) ==
    /\ Has(cur, "left_knee_angle") /\ Has(cur, "right_knee_angle")
    /\ Abs(cur.left_knee_angle - cur.right_knee_angle) > 20

\* Faulty variant: the fallback for absent elbows is tried for a history of any
\* length.
arm_movement_any_length(h) ==
    LET cur == Latest(h)
    IN  \/ /\ Len(h) >= 2
           /\ LET prev_frame == h[Len(h) - 1]
              IN  \/ /\ Has(cur, "left_elbow_angle") /\ Has(prev_frame, "left_elbow_angle")
                     /\ Abs(cur.left_elbow_angle - prev_frame.left_elbow_angle) > 10
                  \/ /\ Has(cur, "right_elbow_angle") /\ Has(prev_frame, "right_elbow_angle")
                     /\ Abs(cur.right_elbow_angle - prev_frame.right_elbow_angle) > 10
        \/ (~Has(cur, "left_elbow_angle") /\ ~Has(cur, "right_elbow_angle"))

arm_movement(h) ==
    /\ Len(h) >= 2
    /\ LET cur == Latest(h)
           prev_frame == h[Len(h) - 1]
       IN  \/ /\ Has(cur, "left_elbow_angle") /\ Has(prev_frame, "left_elbow_angle")
              /\ Abs(cur.left_elbow_angle - prev_frame.left_elbow_angle) > 10
           \/ /\ Has(cur, "right_elbow_angle") /\ Has(prev_frame, "right_elbow_angle")
              /\ Abs(cur.right_elbow_angle - prev_frame.right_elbow_angle) > 10
           \/ (~Has(cur, "left_elbow_angle") /\ ~Has(cur, "right_elbow_angle"))

\* Faulty variant: a straighter leg of 120 degrees is enough.
proper_running_position_120(cur) ==
    (Has(cur, "left_knee_angle") /\ Has(cur, "right_knee_angle")) =>
        /\ ~(cur.left_knee_angle < 90 /\ cur.right_knee_angle < 90)
        /\ ~(Max2(cur.left_knee_angle, cur.right_knee_angle) < 120)

proper_running_position(cur) ==
    (Has(cur, "left_knee_angle") /\ Has(cur, "right_knee_angle")) =>
        /\ ~(cur.left_knee_angle < 90 /\ cur.right_knee_angle < 90)
        /\ ~(Max2(cur.left_knee_angle, cur.right_knee_angle) < 130)

\* Faulty variant: the legs alone decide, the arms are not looked at.
run_detected_legs_only(h, prev) ==
    /\ alternating_knees(Latest(h))
    /\ proper_running_position(Latest(h))
    /\ ~action_buffer_active(h, prev)

\* Faulty variant: the check of the action buffer is left out.
run_detected_unbuffered(h, prev) ==
    /\ alternating_knees(Latest(h))
    /\ arm_movement(h)
    /\ proper_running_position(Latest(h))

run_detected(h, prev) ==
    /\ alternating_knees(Latest(h))
    /\ arm_movement(h)
    /\ proper_running_position(Latest(h))
    /\ ~action_buffer_active(h, prev)

\* Faulty variant: the cooldown looks at the action buffer only, as run does.
cooldown_buffer_only(h, prev) == action_buffer_active(h, prev)

cooldown_active(h, prev) ==
    prev \in {"crouch", "mountain_climber"} \/ action_buffer_active(h, prev)

HasHeights(frame) ==
    /\ Has(frame, "left_hip_y") /\ Has(frame, "right_hip_y")
    /\ Has(frame, "left_shoulder_y") /\ Has(frame, "right_shoulder_y")

proper_jump_pose(cur) ==
    (Has(cur, "left_knee_angle") /\ Has(cur, "right_knee_angle")) =>
        /\ ~(cur.left_knee_angle < 110 /\ cur.right_knee_angle < 110)
        /\ ~(/\ Has(cur, "left_shoulder_angle") /\ Has(cur, "right_shoulder_angle")
             /\ Has(cur, "left_elbow_angle") /\ Has(cur, "right_elbow_angle")
             /\ cur.left_shoulder_angle < 115 /\ cur.right_shoulder_angle < 115
             /\ cur.left_elbow_angle > 165 /\ cur.right_elbow_angle > 165)

\* Faulty variant: the heights of the whole history are compared, not those of
\* the last 3 frames.
jump_pattern_whole_history(h) ==
    LET valid == SelectSeq(h, HasHeights)
        n == Len(valid)
        hip2 == [i \in 1 .. n |-> valid[i].left_hip_y + valid[i].right_hip_y]
        size2 == [i \in 1 .. n |->
                    Abs(hip2[i] - (valid[i].left_shoulder_y + valid[i].right_shoulder_y))]
        total == SeqSum(size2)
    IN  /\ n >= 2
        /\ total > 0
        /\ (hip2[1] - hip2[n]) * n * 100 > 8 * total
        /\ Abs(SeqMax(size2) - SeqMin(size2)) * n * 100 < 15 * total
        /\ proper_jump_pose(Latest(h))

\* hip2[i] is twice avg_hip_y and size2[i] twice body_size of the i-th frame of
\* the window that carries all four heights; n is their number.
jump_pattern(h) ==
    LET valid == SelectSeq(LastN(h, 3), HasHeights)
        n == Len(valid)
        hip2 == [i \in 1 .. n |-> valid[i].left_hip_y + valid[i].right_hip_y]
        size2 == [i \in 1 .. n |->
                    Abs(hip2[i] - (valid[i].left_shoulder_y + valid[i].right_shoulder_y))]
        total == SeqSum(size2)
    IN  /\ n >= 2
        /\ total > 0
        \* upward_movement > avg_body_size * 0.08
        /\ (hip2[1] - hip2[n]) * n * 100 > 8 * total
        \* abs(max_body_size - min_body_size) / avg_body_size < 0.15
        /\ Abs(SeqMax(size2) - SeqMin(size2)) * n * 100 < 15 * total
        /\ proper_jump_pose(Latest(h))

\* Faulty variant: two frames are enough for a jump.
jump_detected_from_two(h, prev) ==
    /\ ~cooldown_active(h, prev)
    /\ Len(h) >= 2
    /\ jump_pattern(h)

\* Faulty variant: the pattern is looked for in a history of any length.
jump_detected_any_length(h, prev) ==
    /\ ~cooldown_active(h, prev)
    /\ jump_pattern(h)

jump_detected(h, prev) ==
    /\ ~cooldown_active(h, prev)
    /\ Len(h) >= 3
    /\ jump_pattern(h)

\* Faulty variant: the run rule is tried before the mountain-climber rule.
classify_run_first(h, prev) ==
    IF h = <<>> THEN "unknown"
    ELSE IF is_crouching(Latest(h)) THEN "crouch"
    ELSE IF run_detected(h, prev) THEN "run"
    ELSE IF mountain_climber_detected(h) THEN "mountain_climber"
    ELSE IF jump_detected(h, prev) THEN "jump"
    ELSE "unknown"

classify_action_simple(h, prev) ==
    IF h = <<>> THEN "unknown"
    ELSE IF is_crouching(Latest(h)) THEN "crouch"
    ELSE IF mountain_climber_detected(h) THEN "mountain_climber"
    ELSE IF run_detected(h, prev) THEN "run"
    ELSE IF jump_detected(h, prev) THEN "jump"
    ELSE "unknown"

classify_action_from_history(h, prev) == classify_action_simple(h, prev)

\* ------------------------------------------------------------ the tracker

VARIABLES
    angle_history,   \* left_angle_history / right_angle_history
    action,          \* left_action / right_action: the stable label
    prev_action,     \* prev_left_action / prev_right_action
    action_buffer,   \* left_action_buffer / right_action_buffer: remaining hold
    reps,            \* the eight rep counters, by side and action
    raw_action,      \* raw_left_action / raw_right_action of the last frame
    fired,           \* observer: the last raw label other than unknown
    lapse,           \* observer: frames since then whose raw label was unknown,
                     \*   counted up to one past the hold length of `fired`
    last_prev,       \* observer: the prev_action the last frame was classified with
    stretch_base,    \* observer: reps just before the current stable stretch
    stretch_pred,    \* observer: the stable label just before that stretch
    raised,          \* observer: whether the classifier raised on the last frame
    arrivals,        \* observer: every left_angles / right_angles received so far
    labels,          \* observer: the raw label of each of those frames
    frames,          \* observer: the number of frames processed so far
    alone,           \* alone[s]: a second tracker, shown only side s of every scene
    frame_counter,   \* camera_loop: frames since the last broadcast was due
    latest_pose_data,\* ConnectionManager.latest_pose_data: the last message sent
    sent,            \* observer: whether the last pass of camera_loop sent a message
    active_connections, \* ConnectionManager.active_connections
    broadcast_call,  \* the call of ConnectionManager.broadcast in progress: where
                     \*   it is, its list iterator and its `disconnected` list
    delivery,        \* observer: what that call has sent, and to whom
    landmarks,       \* the pose landmarks handed to compute_all_angles
    valid_angles,    \* what compute_all_angles returned for them
    computed,        \* whether compute_all_angles has returned
    pose_buffer,     \* ActionClassifier.pose_buffer
    current_action,  \* ActionClassifier.current_action
    last_call,       \* observer: the last call made on the ActionClassifier, its
                     \*   argument and what it returned
    call_history,    \* a direct call of the classifier: its angle_history,
    call_prev,       \*   its prev_action,
    call_result      \*   and what it returned ("pending" before the call)

tracker_vars == <<angle_history, action, prev_action, action_buffer, reps, raw_action,
                  fired, lapse, last_prev, stretch_base, stretch_pred, raised>>

scene_vars == <<arrivals, labels, frames, alone>>

manager_vars == <<active_connections, broadcast_call, delivery>>

server_vars == <<frame_counter, latest_pose_data, sent, manager_vars>>

call_vars == <<call_history, call_prev, call_result>>

extractor_vars == <<landmarks, valid_angles, computed>>

realtime_vars == <<pose_buffer, current_action, last_call>>

vars == <<tracker_vars, scene_vars, server_vars, extractor_vars, call_vars, realtime_vars>>

NoReps == [a \in Counted |-> 0]

\* The fields of a tracker that has not processed a frame.
Fresh ==
    [angle_history |-> [s \in Sides |-> <<>>],
     action |-> [s \in Sides |-> "unknown"],
     prev_action |-> [s \in Sides |-> "unknown"],
     action_buffer |-> [s \in Sides |-> 0],
     reps |-> [s \in Sides |-> NoReps],
     raw_action |-> [s \in Sides |-> "unknown"]]

NoScenes ==
    /\ raised = [s \in Sides |-> FALSE]
    /\ arrivals = [s \in Sides |-> <<>>]
    /\ labels = [s \in Sides |-> <<>>]
    /\ frames = 0
    /\ alone = [s \in Sides |-> Fresh]

\* No message yet (latest_pose_data is None).
NoData == [key \in {} |-> 0]

\* The server before the first pass of camera_loop.
NoBroadcast ==
    /\ frame_counter = 0
    /\ latest_pose_data = NoData
    /\ sent = FALSE
    /\ active_connections = <<>>
    /\ broadcast_call = [pc |-> "idle", taken |-> 0, connection |-> 0, disconnected |-> <<>>]
    /\ delivery = [sent_to |-> <<>>, stayed |-> {}, raised |-> {}, closed |-> {}]

\* No pose in the picture (pose_landmarks is None).
NoLandmarks == [name \in {} |-> 0]

\* The extractor before it is called.
NoExtraction ==
    /\ landmarks = NoLandmarks
    /\ valid_angles = [key \in {} |-> 0]
    /\ computed = FALSE

\* An ActionClassifier on which no method has been called.
NoPoses ==
    /\ pose_buffer = <<>>
    /\ current_action = "none"
    /\ last_call = [method |-> "__init__", argument |-> <<>>, returned |-> "none"]

NoCall ==
    /\ call_history = <<>>
    /\ call_prev = "unknown"
    /\ call_result = "pending"

\* Faulty variant: the hold counters start at the crouch hold length.
ConstructedHolding ==
    /\ angle_history = [s \in Sides |-> <<>>]
    /\ action = [s \in Sides |-> "unknown"]
    /\ prev_action = [s \in Sides |-> "unknown"]
    /\ action_buffer = [s \in Sides |-> crouch_buffer_length]
    /\ reps = [s \in Sides |-> NoReps]
    /\ raw_action = [s \in Sides |-> "unknown"]
    /\ fired = [s \in Sides |-> "unknown"]
    /\ lapse = [s \in Sides |-> 0]
    /\ last_prev = [s \in Sides |-> "unknown"]
    /\ stretch_base = [s \in Sides |-> NoReps]
    /\ stretch_pred = [s \in Sides |-> "unknown"]
    /\ NoScenes
    /\ NoBroadcast
    /\ NoPoses

Constructed ==
    /\ angle_history = [s \in Sides |-> <<>>]
    /\ action = [s \in Sides |-> "unknown"]
    /\ prev_action = [s \in Sides |-> "unknown"]
    /\ action_buffer = [s \in Sides |-> 0]
    /\ reps = [s \in Sides |-> NoReps]
    /\ raw_action = [s \in Sides |-> "unknown"]
    /\ fired = [s \in Sides |-> "unknown"]
    /\ lapse = [s \in Sides |-> 0]
    /\ last_prev = [s \in Sides |-> "unknown"]
    /\ stretch_base = [s \in Sides |-> NoReps]
    /\ stretch_pred = [s \in Sides |-> "unknown"]
    /\ NoScenes
    /\ NoBroadcast
    /\ NoPoses

Init == Constructed /\ NoExtraction /\ NoCall

\* Faulty variant: a full buffer gives up its newest frame, not its oldest.
AppendAnglesDropNewest(history, angles) ==
    IF DOMAIN angles = {} THEN history
    ELSE IF Len(history) >= W THEN Append(SubSeq(history, 1, W - 1), angles)
    ELSE Append(history, angles)

\* Faulty variant: a frame without angles is appended like any other.
AppendAnglesAlways(history, angles) ==
    IF Len(history) >= W THEN Append(Tail(history), angles)
    ELSE Append(history, angles)

\* Faulty variant: a frame without angles empties the history.
AppendAnglesClearOnEmpty(history, angles) ==
    IF DOMAIN angles = {} THEN <<>>
    ELSE IF Len(history) >= W THEN Append(Tail(history), angles)
    ELSE Append(history, angles)

\* if left_angles: self.left_angle_history.append(left_angles), on a deque(maxlen=5)
AppendAngles(history, angles) ==
    IF DOMAIN angles = {} THEN history
    ELSE IF Len(history) >= W THEN Append(Tail(history), angles)
    ELSE Append(history, angles)

\* Faulty variant: after an error the previous label counts as detected again.
RawActionKeepOnError(history, prev, raises) ==
    IF Len(history) >= 1
    THEN IF raises THEN prev ELSE classify_action_from_history(history, prev)
    ELSE "unknown"

\* `raises`: the call of the classifier ends in an exception.
RawAction(history, prev, raises) ==
    IF Len(history) >= 1
    THEN IF raises THEN "unknown" ELSE classify_action_from_history(history, prev)
    ELSE "unknown"

\* Faulty variant: the right side is classified with the left side's previous
\* action.
ClassifiedSharedPrev(history, prev, failing) ==
    [s \in Sides |-> RawAction(history[s], prev["left"], s \in failing)]

\* Faulty variant: one try block around both calls, so that an error on either
\* side leaves both raw labels unknown.
ClassifiedOneTry(history, prev, failing) ==
    [s \in Sides |->
        RawAction(history[s], prev[s],
                  \E t \in failing : Len(history[t]) >= 1)]

\* raw_left_action and raw_right_action; `failing`: the sides whose call of the
\* classifier raises.
Classified(history, prev, failing) ==
    [s \in Sides |-> RawAction(history[s], prev[s], s \in failing)]

\* Faulty variant: the run branch is missing, so run falls to the crouch length.
BufferLengthNoRunBranch(raw) ==
    IF raw = "mountain_climber" THEN mountain_climber_buffer_length
    ELSE IF raw = "jump" THEN jump_buffer_length
    ELSE crouch_buffer_length

\* Faulty variant: a run is held as long as a mountain climber.
BufferLengthRunAsClimber(raw) ==
    IF raw \in {"mountain_climber", "run"} THEN mountain_climber_buffer_length
    ELSE IF raw = "jump" THEN jump_buffer_length
    ELSE crouch_buffer_length

\* Faulty variant: a crouch is held no longer than a mountain climber.
BufferLengthCrouchAsClimber(raw) ==
    IF raw = "run" THEN run_buffer_length
    ELSE IF raw = "jump" THEN jump_buffer_length
    ELSE mountain_climber_buffer_length

BufferLength(raw) ==
    IF raw = "mountain_climber" THEN mountain_climber_buffer_length
    ELSE IF raw = "run" THEN run_buffer_length
    ELSE IF raw = "jump" THEN jump_buffer_length
    ELSE crouch_buffer_length

\* Faulty variant: a frame without a detection drops the label at once.
BufferedActionNoHold(raw, act, buffer) ==
    IF raw # "unknown" THEN raw ELSE "unknown"

BufferedAction(raw, act, buffer) ==
    IF raw # "unknown" THEN raw
    ELSE IF buffer > 0 THEN act
    ELSE "unknown"

\* Faulty variant: the firing frame already uses up one frame of the hold.
BufferedCountEager(raw, buffer) ==
    IF raw # "unknown" THEN Max2(BufferLength(raw) - 1, 0)
    ELSE IF buffer > 0 THEN buffer - 1
    ELSE buffer

\* Faulty variant: a firing never shortens a hold that is in progress.
BufferedCountKeepLonger(raw, buffer) ==
    IF raw # "unknown" THEN Max2(buffer, BufferLength(raw))
    ELSE IF buffer > 0 THEN buffer - 1
    ELSE buffer

\* Faulty variant: the countdown does not stop at zero.
BufferedCountUnguarded(raw, buffer) ==
    IF raw # "unknown" THEN BufferLength(raw)
    ELSE buffer - 1

BufferedCount(raw, buffer) ==
    IF raw # "unknown" THEN BufferLength(raw)
    ELSE IF buffer > 0 THEN buffer - 1
    ELSE buffer

\* Faulty variant: every frame with a stable action is counted.
CountRepsEveryFrame(counts, prev, act) ==
    IF act # "unknown" THEN [counts EXCEPT ![act] = @ + 1] ELSE counts

\* Faulty variant: every change to a stable action is counted.
CountRepsEveryChange(counts, prev, act) ==
    IF prev # act /\ act # "unknown" THEN [counts EXCEPT ![act] = @ + 1] ELSE counts

\* Faulty variant: a new instance starts the counts of the other actions again.
CountRepsRestart(counts, prev, act) ==
    IF prev = "unknown" /\ act # "unknown"
    THEN [a \in Counted |-> IF a = act THEN counts[a] + 1 ELSE 0]
    ELSE counts

\* Faulty variant: a new instance is counted twice.
CountRepsTwice(counts, prev, act) ==
    IF prev = "unknown" /\ act # "unknown"
    THEN [counts EXCEPT ![act] = @ + 2]
    ELSE counts

CountReps(counts, prev, act) ==
    IF prev = "unknown" /\ act # "unknown"
    THEN [counts EXCEPT ![act] = @ + 1]
    ELSE counts

RepTotal(counts) ==
    counts["crouch"] + counts["mountain_climber"] + counts["run"] + counts["jump"]

\* The fields of the tracker, as one record.
Fields ==
    [angle_history |-> angle_history, action |-> action, prev_action |-> prev_action,
     action_buffer |-> action_buffer, reps |-> reps, raw_action |-> raw_action]

\* The fields process_frame leaves behind when it starts with the fields `st`.
Processed(st, left_angles, right_angles, failing) ==
    LET angles == [s \in Sides |-> IF s = "left" THEN left_angles ELSE right_angles]
        history == [s \in Sides |-> AppendAngles(st.angle_history[s], angles[s])]
        raw == Classified(history, st.prev_action, failing)
        act == [s \in Sides |-> BufferedAction(raw[s], st.action[s], st.action_buffer[s])]
    IN  [angle_history |-> history,
         raw_action |-> raw,
         action |-> act,
         action_buffer |-> [s \in Sides |-> BufferedCount(raw[s], st.action_buffer[s])],
         reps |-> [s \in Sides |-> CountReps(st.reps[s], st.prev_action[s], act[s])],
         prev_action |-> act]

ProcessFrame(left_angles, right_angles, failing) ==
    \E done \in {Processed(Fields, left_angles, right_angles, failing)} :
    LET history == done.angle_history
        raw == done.raw_action
        act == done.action
    IN  /\ \A s \in Sides : RepTotal(reps[s]) < MaxReps
        /\ angle_history' = history
        /\ raw_action' = raw
        /\ action' = act
        /\ action_buffer' = done.action_buffer
        /\ reps' = done.reps
        /\ prev_action' = done.prev_action
        /\ last_prev' = prev_action
        /\ raised' = [s \in Sides |-> s \in failing /\ Len(history[s]) >= 1]
        /\ fired' = [s \in Sides |-> IF raw[s] # "unknown" THEN raw[s] ELSE fired[s]]
        /\ lapse' = [s \in Sides |->
                        IF raw[s] # "unknown" THEN 0
                        ELSE IF fired[s] # "unknown" /\ lapse[s] <= BufferLength(fired[s])
                             THEN lapse[s] + 1
                        ELSE lapse[s]]
        /\ stretch_base' = [s \in Sides |->
                        IF act[s] # action[s] THEN reps[s] ELSE stretch_base[s]]
        /\ stretch_pred' = [s \in Sides |->
                        IF act[s] # action[s] THEN action[s] ELSE stretch_pred[s]]
        /\ UNCHANGED <<call_vars, extractor_vars, realtime_vars>>

\* ---------------------------------------------------------- camera scenes

NoAngles == [key \in {} |-> 0]

CrouchFrame ==
    [left_knee_angle |-> 100, right_knee_angle |-> 95,
     left_hip_y |-> 70, right_hip_y |-> 70, left_shoulder_y |-> 50, right_shoulder_y |-> 50]

ClimberFrame ==
    [left_elbow_angle |-> 170, right_elbow_angle |-> 168,
     left_shoulder_angle |-> 110, right_shoulder_angle |-> 112,
     left_hip_angle |-> 160, right_hip_angle |-> 145,
     left_hip_y |-> 65, right_hip_y |-> 65, left_shoulder_y |-> 45, right_shoulder_y |-> 45]

StrideFrame ==
    [left_knee_angle |-> 155, right_knee_angle |-> 125,
     left_hip_y |-> 60, right_hip_y |-> 60, left_shoulder_y |-> 40, right_shoulder_y |-> 40]

AirFrame ==
    [left_knee_angle |-> 170, right_knee_angle |-> 175,
     left_hip_y |-> 50, right_hip_y |-> 50, left_shoulder_y |-> 30, right_shoulder_y |-> 30]

\* The key of the same joint on the other side of the body.
Other ==
    [left_knee_angle |-> "right_knee_angle", right_knee_angle |-> "left_knee_angle",
     left_hip_angle |-> "right_hip_angle", right_hip_angle |-> "left_hip_angle",
     left_elbow_angle |-> "right_elbow_angle", right_elbow_angle |-> "left_elbow_angle",
     left_shoulder_angle |-> "right_shoulder_angle",
     right_shoulder_angle |-> "left_shoulder_angle",
     left_hip_y |-> "right_hip_y", right_hip_y |-> "left_hip_y",
     left_shoulder_y |-> "right_shoulder_y", right_shoulder_y |-> "left_shoulder_y"]

\* The same pose with the two sides of the body exchanged.
Mirror(frame) == [key \in {Other[k] : k \in DOMAIN frame} |-> frame[Other[key]]]

Poses == {NoAngles, CrouchFrame, ClimberFrame, StrideFrame, AirFrame}

\* What the two halves of one camera frame show: two players facing the camera
\* in step, the right one the mirror image of the left one.
ScenePairs == {<<pose, Mirror(pose)>> : pose \in Poses}

Next ==
    \E pair \in ScenePairs :
        ProcessFrame(pair[1], pair[2], {}) /\ UNCHANGED <<scene_vars, server_vars>>

Spec == Init /\ [][Next]_vars

\* ------------------------------------------------- scenes that are logged

\* Most frames a logged run receives.
MaxArrivals == 7

\* Scenes in which the two players do different things, or one is out of view.
LoggedPairs ==
    {<<NoAngles, CrouchFrame>>, <<CrouchFrame, NoAngles>>,
     <<AirFrame, StrideFrame>>, <<StrideFrame, CrouchFrame>>}

\* process_frame, with what each side received written to the log.
ProcessFrameLogged(left_angles, right_angles) ==
    /\ Len(arrivals["left"]) < MaxArrivals
    /\ ProcessFrame(left_angles, right_angles, {})
    /\ arrivals' = [s \in Sides |->
                      Append(arrivals[s], IF s = "left" THEN left_angles ELSE right_angles)]
    /\ labels' = [s \in Sides |-> Append(labels[s], raw_action'[s])]
    /\ UNCHANGED <<frames, alone, server_vars>>

NextLogged == \E pair \in LoggedPairs : ProcessFrameLogged(pair[1], pair[2])

SpecLogged == Init /\ [][NextLogged]_vars

\* ----------------------------------------------- the documented exercises

\* The frames of the mountain-climber example: a plank, and the same plank
\* with the hips exchanged.
ClimberKickFrame ==
    [left_elbow_angle |-> 170, right_elbow_angle |-> 168,
     left_shoulder_angle |-> 110, right_shoulder_angle |-> 112,
     left_hip_angle |-> 160, right_hip_angle |-> 145]

ClimberSwitchFrame ==
    [left_elbow_angle |-> 170, right_elbow_angle |-> 168,
     left_shoulder_angle |-> 110, right_shoulder_angle |-> 112,
     left_hip_angle |-> 145, right_hip_angle |-> 160]

\* The two frames of the running example.
RunStepFrame ==
    [left_knee_angle |-> 155, right_knee_angle |-> 125,
     left_elbow_angle |-> 130, right_elbow_angle |-> 160]

RunSwitchFrame ==
    [left_knee_angle |-> 130, right_knee_angle |-> 160,
     left_elbow_angle |-> 150, right_elbow_angle |-> 140]

\* The frame of the crouch example, and a crouch of which only the knees are
\* known.
CrouchExampleFrame ==
    [left_knee_angle |-> 115, right_knee_angle |-> 110,
     left_hip_angle |-> 120, right_hip_angle |-> 125]

KneesOnlyCrouchFrame == [left_knee_angle |-> 100, right_knee_angle |-> 95]

\* One player does mountain climbers while the other runs, or one crouches
\* while the other is out of view or crouches too.
ExercisePairs ==
    {<<ClimberKickFrame, RunStepFrame>>, <<ClimberSwitchFrame, RunSwitchFrame>>,
     <<CrouchFrame, NoAngles>>, <<KneesOnlyCrouchFrame, CrouchExampleFrame>>}

NextExercise == \E pair \in ExercisePairs : ProcessFrameLogged(pair[1], pair[2])

SpecExercise == Init /\ [][NextExercise]_vars

\* ------------------------------------------------------ a player who jumps

\* Most frames a jumping player is watched for.
MaxJumpFrames == 4

\* A player who stands with the hips at height hip_y and the shoulders at
\* shoulder_y (hundredths of the frame height, 0 at the top).
Standing(hip_y, shoulder_y, left_knee, right_knee) ==
    [left_hip_y |-> hip_y, right_hip_y |-> hip_y,
     left_shoulder_y |-> shoulder_y, right_shoulder_y |-> shoulder_y,
     left_knee_angle |-> left_knee, right_knee_angle |-> right_knee]

\* The four frames of the jump example.
jump_frames ==
    <<Standing(60, 40, 160, 165), Standing(50, 30, 155, 160),
      Standing(45, 25, 170, 175), Standing(55, 35, 165, 160)>>

\* Other moments of a jump: higher and lower take-offs and landings, and one
\* in which the torso looks a little longer.
JumpPoses ==
    {jump_frames[i] : i \in 1 .. 4}
        \cup {Standing(30, 10, 170, 175), Standing(40, 20, 165, 160),
              Standing(58, 38, 160, 165), Standing(59, 39, 160, 165),
              Standing(45, 23, 170, 175)}

\* The left camera half sees the jump; in the right half the heights are
\* not available.
ProcessFrameJump(pose) ==
    /\ Len(arrivals["left"]) < MaxJumpFrames
    /\ ProcessFrameLogged(pose, [key \in {"left_knee_angle", "right_knee_angle"} |-> pose[key]])

NextJump == \E pose \in JumpPoses : ProcessFrameJump(pose)

SpecJump == Init /\ [][NextJump]_vars

\* ------------------------------------- two players who move independently

\* Most frames such a run receives.
MaxFrames == 4

TwinPoses == {NoAngles, CrouchFrame, StrideFrame}

\* process_frame on the tracker and, beside it, on the two trackers that are
\* each shown one side of the scene only and whose other side never raises.
ProcessFrameTwin(left_angles, right_angles, failing) ==
    /\ frames < MaxFrames
    /\ ProcessFrame(left_angles, right_angles, failing)
    /\ frames' = frames + 1
    /\ alone' = [left |-> Processed(alone["left"], left_angles, NoAngles,
                                    failing \cap {"left"}),
                 right |-> Processed(alone["right"], NoAngles, right_angles,
                                     failing \cap {"right"})]
    /\ UNCHANGED <<arrivals, labels, server_vars>>

\* The classifier raises on one side at most in a frame.
Failures == {{}, {"left"}, {"right"}}

NextTwin ==
    \E left_angles \in TwinPoses, right_angles \in TwinPoses, failing \in Failures :
        ProcessFrameTwin(left_angles, right_angles, failing)

SpecTwin == Init /\ [][NextTwin]_vars

\* --------------------------------------------------- the websocket server

\* Most passes of camera_loop in a run of the server.
MaxPasses == 6

WEBSOCKET_BROADCAST_FPS == 10

broadcast_every_n_frames == 30 \div WEBSOCKET_BROADCAST_FPS

\* Python's None, null in the JSON message.
None == "None"

\* float(angles_dict[key]) when the key is there, else the None the field starts
\* with.
AngleOrNone(angles_dict, key) ==
    IF Has(angles_dict, key) THEN angles_dict[key] ELSE None

\* speed, in tenths.
Speed(act) ==
    IF act = "run" THEN 85
    ELSE IF act = "jump" THEN 50
    ELSE IF act = "mountain_climber" THEN 60
    ELSE IF act = "crouch" THEN 10
    ELSE 0

\* Faulty variant: the label is passed on as it is, unknown included.
extract_player_data_verbatim(angles_dict, act, player_id) ==
    [player |-> player_id,
     action |-> act,
     speed |-> Speed(act),
     head |-> [pitch |-> AngleOrNone(angles_dict, "head_tilt_angle"),
               yaw |-> AngleOrNone(angles_dict, "head_turn_angle"),
               roll |-> AngleOrNone(angles_dict, "neck_angle")],
     arms |-> [left |-> [shoulder_angle |-> AngleOrNone(angles_dict, "left_shoulder_angle"),
                         elbow_angle |-> AngleOrNone(angles_dict, "left_elbow_angle")],
               right |-> [shoulder_angle |-> AngleOrNone(angles_dict, "right_shoulder_angle"),
                          elbow_angle |-> AngleOrNone(angles_dict, "right_elbow_angle")]]]

\* The record of one player, without its timestamp (the wall-clock time).
extract_player_data(angles_dict, act, player_id) ==
    [player |-> player_id,
     action |-> IF act # "unknown" THEN act ELSE None,
     speed |-> Speed(act),
     head |-> [pitch |-> AngleOrNone(angles_dict, "head_tilt_angle"),
               yaw |-> AngleOrNone(angles_dict, "head_turn_angle"),
               roll |-> AngleOrNone(angles_dict, "neck_angle")],
     arms |-> [left |-> [shoulder_angle |-> AngleOrNone(angles_dict, "left_shoulder_angle"),
                         elbow_angle |-> AngleOrNone(angles_dict, "left_elbow_angle")],
               right |-> [shoulder_angle |-> AngleOrNone(angles_dict, "right_shoulder_angle"),
                          elbow_angle |-> AngleOrNone(angles_dict, "right_elbow_angle")]]]

\* The message for the tracker fields `st`, without its timestamp.
extract_pose_data(st) ==
    LET left_angles == IF Len(st.angle_history["left"]) > 0
                       THEN Latest(st.angle_history["left"]) ELSE NoAngles
        right_angles == IF Len(st.angle_history["right"]) > 0
                        THEN Latest(st.angle_history["right"]) ELSE NoAngles
    IN  [players |-> <<extract_player_data(left_angles, st.action["left"], 1),
                       extract_player_data(right_angles, st.action["right"], 2)>>,
         debug |-> [left_reps |-> [a \in {"run", "jump", "crouch", "mountain_climber"} |->
                                      st.reps["left"][a]],
                    right_reps |-> [a \in {"run", "jump", "crouch", "mountain_climber"} |->
                                      st.reps["right"][a]]]]

\* One pass of camera_loop that read a frame; `clients`: whether a client is
\* connected (manager.active_connections is not empty) when the broadcast is due.
CameraLoop(left_angles, right_angles, clients) ==
    /\ frames < MaxPasses
    /\ ProcessFrame(left_angles, right_angles, {})
    /\ frames' = frames + 1
    /\ IF frame_counter + 1 >= broadcast_every_n_frames
       THEN /\ frame_counter' = 0
            /\ IF clients
               THEN /\ latest_pose_data' =
                          extract_pose_data([angle_history |-> angle_history',
                                             action |-> action', reps |-> reps'])
                    /\ sent' = TRUE
               ELSE /\ sent' = FALSE
                    /\ UNCHANGED latest_pose_data
       ELSE /\ frame_counter' = frame_counter + 1
            /\ sent' = FALSE
            /\ UNCHANGED latest_pose_data
    /\ UNCHANGED <<arrivals, labels, alone, manager_vars>>

NextServer ==
    \E pair \in ScenePairs, clients \in BOOLEAN : CameraLoop(pair[1], pair[2], clients)

SpecServer == Init /\ [][NextServer]_vars

\* ------------------------------------------------ the connection manager

\* Most websockets that are ever opened.
MaxClients == 3

Clients == 1 .. MaxClients

Members(list) == {list[i] : i \in DOMAIN list}

RECURSIVE DisconnectAll(_, _)

\* ConnectionManager.disconnect: remove the connection if it is in the list.
disconnect(list, connection) ==
    IF connection \in Members(list) THEN SelectSeq(list, LAMBDA c : c # connection) ELSE list

\* for connection in disconnected: self.disconnect(connection)
DisconnectAll(list, disconnected) ==
    IF disconnected = <<>> THEN list
    ELSE DisconnectAll(disconnect(list, Head(disconnected)), Tail(disconnected))

\* websocket_endpoint, first half: a new websocket is accepted and appended.
\* (The copy of latest_pose_data that connect sends goes to this websocket
\* only and is not a send of broadcast.)
Connect(websocket) ==
    /\ websocket \notin Members(active_connections)
    /\ websocket \notin delivery.closed
    /\ active_connections' = Append(active_connections, websocket)
    /\ UNCHANGED <<broadcast_call, delivery>>

\* websocket_endpoint, second half: receive_text raises and the websocket is
\* taken off the list.
Disconnect(websocket) ==
    /\ websocket \in Members(active_connections)
    /\ active_connections' = disconnect(active_connections, websocket)
    /\ delivery' = [delivery EXCEPT
                       !.stayed = IF broadcast_call.pc = "sending" THEN @ \ {websocket} ELSE @,
                       !.closed = @ \cup {websocket}]
    /\ UNCHANGED broadcast_call

\* The for loop of broadcast asks the list iterator for its next item: the
\* item at the position after the `taken` items it has handed out, if the list
\* is that long now.  With one it suspends in send_text; without, the loop
\* ends, the connections in `disconnected` are removed and the call returns.
Advance(list, taken, disconnected) ==
    IF taken < Len(list)
    THEN [list |-> list,
          call |-> [pc |-> "sending", taken |-> taken + 1, connection |-> list[taken + 1],
                    disconnected |-> disconnected]]
    ELSE [list |-> DisconnectAll(list, disconnected),
          call |-> [pc |-> "returned", taken |-> taken, connection |-> 0,
                    disconnected |-> disconnected]]

\* broadcast is called with `data`: it stores the data and, if there is a
\* connection, starts sending.
BroadcastCalled ==
    /\ broadcast_call.pc \in {"idle", "returned"}
    /\ latest_pose_data' = extract_pose_data(Fields)
    /\ delivery' = [delivery EXCEPT !.sent_to = <<>>, !.raised = {},
                                    !.stayed = Members(active_connections)]
    /\ IF active_connections = <<>>
       THEN broadcast_call' = [pc |-> "returned", taken |-> 0, connection |-> 0,
                               disconnected |-> <<>>]
       ELSE broadcast_call' = Advance(active_connections, 0, <<>>).call
    /\ UNCHANGED active_connections

\* The send_text the call is suspended in returns (ok) or raises, and the
\* loop goes on.
SendReturns(ok) ==
    /\ broadcast_call.pc = "sending"
    /\ LET disconnected == IF ok THEN broadcast_call.disconnected
                           ELSE Append(broadcast_call.disconnected, broadcast_call.connection)
           next == Advance(active_connections, broadcast_call.taken, disconnected)
       IN  /\ broadcast_call' = next.call
           /\ active_connections' = next.list
           /\ delivery' =
                 [delivery EXCEPT
                    !.sent_to = IF ok THEN Append(@, broadcast_call.connection) ELSE @,
                    !.raised = IF ok THEN @ ELSE @ \cup {broadcast_call.connection},
                    !.closed = @ \cup (Members(active_connections) \ Members(next.list))]

\* Everything but the connection manager.
Elsewhere ==
    <<frame_counter, sent, tracker_vars, scene_vars, extractor_vars, call_vars, realtime_vars>>

NextManager ==
    \/ \E websocket \in Clients : Connect(websocket) /\ UNCHANGED <<latest_pose_data, Elsewhere>>
    \/ \E websocket \in Clients : Disconnect(websocket) /\ UNCHANGED <<latest_pose_data, Elsewhere>>
    \/ \E ok \in BOOLEAN : SendReturns(ok) /\ UNCHANGED <<latest_pose_data, Elsewhere>>
    \/ BroadcastCalled /\ UNCHANGED Elsewhere

SpecManager == Init /\ [][NextManager]_vars

\* ------------------------------------------------ the joint angle extractor
\*
\* A landmark is a record of x, y and visibility, in hundredths; a point is the
\* pair <<x, y>>.  A value that may be None is a sequence: <<>> for None, the
\* point itself or <<angle>> otherwise.

\* JointAngleFeatureExtractor(min_visibility=0.3)
min_visibility == 30

is_landmark_reliable(landmark) ==
    /\ ~(landmark.visibility < min_visibility)
    /\ ~(landmark.x <= 0 /\ landmark.y <= 0)
    /\ ~(landmark.x >= 100 \/ landmark.y >= 100)

\* A landmark the pose does not have ends in the except branch.
get_landmark_coords(marks, landmark_name) ==
    IF landmark_name \notin DOMAIN marks THEN <<>>
    ELSE IF ~is_landmark_reliable(marks[landmark_name]) THEN <<>>
    ELSE <<marks[landmark_name].x, marks[landmark_name].y>>

Minus(p, q) == <<p[1] - q[1], p[2] - q[2]>>

Dot(p, q) == p[1] * q[1] + p[2] * q[2]

Cross(p, q) == p[1] * q[2] - p[2] * q[1]

\* math.degrees(math.acos(cos_angle)) of the angle between two vectors that are
\* not zero, for the angles that are multiples of 45 degrees (the poses below
\* form no others).
AngleBetween(u, v) ==
    CASE Cross(u, v) = 0 /\ Dot(u, v) > 0 -> 0
      [] Cross(u, v) # 0 /\ Dot(u, v) = Abs(Cross(u, v)) -> 45
      [] Dot(u, v) = 0 -> 90
      [] Cross(u, v) # 0 /\ 0 - Dot(u, v) = Abs(Cross(u, v)) -> 135
      [] Cross(u, v) = 0 /\ Dot(u, v) < 0 -> 180

calculate_angle(point_a, point_b, point_c) ==
    IF point_a = <<>> \/ point_b = <<>> \/ point_c = <<>> THEN <<>>
    ELSE LET vector_ba == Minus(point_a, point_b)
             vector_bc == Minus(point_c, point_b)
         IN  IF vector_ba = <<0, 0>> \/ vector_bc = <<0, 0>> THEN <<>>
             ELSE <<AngleBetween(vector_ba, vector_bc)>>

\* The three landmarks of each angle that is the angle at a joint.
JointLandmarks ==
    [left_knee_angle |-> <<"left_hip", "left_knee", "left_ankle">>,
     right_knee_angle |-> <<"right_hip", "right_knee", "right_ankle">>,
     left_hip_angle |-> <<"left_shoulder", "left_hip", "left_knee">>,
     right_hip_angle |-> <<"right_shoulder", "right_hip", "right_knee">>,
     left_ankle_angle |-> <<"left_knee", "left_ankle", "left_foot">>,
     right_ankle_angle |-> <<"right_knee", "right_ankle", "right_foot">>,
     left_elbow_angle |-> <<"left_shoulder", "left_elbow", "left_wrist">>,
     right_elbow_angle |-> <<"right_shoulder", "right_elbow", "right_wrist">>,
     left_shoulder_angle |-> <<"left_elbow", "left_shoulder", "left_hip">>,
     right_shoulder_angle |-> <<"right_elbow", "right_shoulder", "right_hip">>,
     head_tilt_angle |-> <<"left_shoulder", "nose", "right_shoulder">>,
     left_shoulder_roll_angle |-> <<"nose", "left_shoulder", "left_elbow">>,
     right_shoulder_roll_angle |-> <<"nose", "right_shoulder", "right_elbow">>]

\* left_knee_angle(landmarks) ... right_shoulder_roll_angle(landmarks)
joint_angle(marks, key) ==
    IF DOMAIN marks = {} THEN <<>>
    ELSE calculate_angle(get_landmark_coords(marks, JointLandmarks[key][1]),
                         get_landmark_coords(marks, JointLandmarks[key][2]),
                         get_landmark_coords(marks, JointLandmarks[key][3]))

\* twice_nose_vector is twice actual_nose_vector; normalized_deviation is
\* deviation / shoulder_length^2, and the angle is kept in whole degrees.  The
\* forward vector is as long as the shoulder vector, so the second return of
\* 0.0 is taken under the same condition as the first.
head_turn_angle(marks) ==
    LET left_shoulder == get_landmark_coords(marks, "left_shoulder")
        right_shoulder == get_landmark_coords(marks, "right_shoulder")
        nose == get_landmark_coords(marks, "nose")
    IN  IF DOMAIN marks = {} THEN <<>>
        ELSE IF left_shoulder = <<>> \/ right_shoulder = <<>> \/ nose = <<>> THEN <<>>
        ELSE LET shoulder_vector == Minus(right_shoulder, left_shoulder)
                 twice_nose_vector ==
                     <<2 * nose[1] - left_shoulder[1] - right_shoulder[1],
                       2 * nose[2] - left_shoulder[2] - right_shoulder[2]>>
                 deviation == Dot(twice_nose_vector, shoulder_vector)
                 turn_angle == (45 * Abs(deviation)) \div Dot(shoulder_vector, shoulder_vector)
             IN  IF shoulder_vector = <<0, 0>> THEN <<0>>
                 ELSE IF deviation > 0 THEN <<0 - turn_angle>>
                 ELSE <<turn_angle>>

\* The angle at the shoulder centre between the point 0.1 below it and the
\* nose, taken at twice the size so that the centre stays on the grid.
neck_angle(marks) ==
    LET left_shoulder == get_landmark_coords(marks, "left_shoulder")
        right_shoulder == get_landmark_coords(marks, "right_shoulder")
        nose == get_landmark_coords(marks, "nose")
    IN  IF DOMAIN marks = {} THEN <<>>
        ELSE IF left_shoulder = <<>> \/ right_shoulder = <<>> \/ nose = <<>> THEN <<>>
        ELSE LET twice_centre == <<left_shoulder[1] + right_shoulder[1],
                                   left_shoulder[2] + right_shoulder[2]>>
                 twice_vertical_ref == <<twice_centre[1], twice_centre[2] + 20>>
             IN  calculate_angle(twice_vertical_ref, twice_centre,
                                 <<2 * nose[1], 2 * nose[2]>>)

AngleNames == (DOMAIN JointLandmarks) \cup {"head_turn_angle", "neck_angle"}

compute_all_angles(marks) ==
    LET all_angles == [key \in AngleNames |->
                          IF key = "head_turn_angle" THEN head_turn_angle(marks)
                          ELSE IF key = "neck_angle" THEN neck_angle(marks)
                          ELSE joint_angle(marks, key)]
    IN  [key \in {k \in AngleNames : all_angles[k] # <<>>} |-> all_angles[key][1]]

\* A landmark in plain view.
Seen(x, y) == [x |-> x, y |-> y, visibility |-> 90]

\* A player standing upright, facing the camera, elbows out.
Facing ==
    [nose |-> Seen(50, 10),
     left_shoulder |-> Seen(40, 20), right_shoulder |-> Seen(60, 20),
     left_elbow |-> Seen(30, 30), right_elbow |-> Seen(70, 30),
     left_wrist |-> Seen(30, 40), right_wrist |-> Seen(70, 40),
     left_hip |-> Seen(40, 50), right_hip |-> Seen(60, 50),
     left_knee |-> Seen(40, 70), right_knee |-> Seen(60, 70),
     left_ankle |-> Seen(40, 90), right_ankle |-> Seen(60, 90),
     left_foot |-> Seen(30, 90), right_foot |-> Seen(70, 90)]

\* The same player with the lower legs pointing at the camera: each ankle is
\* seen where its knee is.
Kneeling ==
    [Facing EXCEPT !["left_ankle"] = Seen(40, 70), !["right_ankle"] = Seen(60, 70)]

\* A player seen from the side: each right landmark is seen where the left one
\* is.
Profile ==
    [nose |-> Seen(50, 10),
     left_shoulder |-> Seen(40, 20), right_shoulder |-> Seen(40, 20),
     left_elbow |-> Seen(40, 35), right_elbow |-> Seen(40, 35),
     left_wrist |-> Seen(50, 45), right_wrist |-> Seen(50, 45),
     left_hip |-> Seen(40, 50), right_hip |-> Seen(40, 50),
     left_knee |-> Seen(40, 70), right_knee |-> Seen(40, 70),
     left_ankle |-> Seen(40, 90), right_ankle |-> Seen(40, 90),
     left_foot |-> Seen(50, 90), right_foot |-> Seen(50, 90)]

\* The player facing the camera with the head bent forward, so that the nose
\* is seen on the line of the shoulders, and turned towards the right shoulder
\* or towards the left one.
LookingRight == [Facing EXCEPT !["nose"] = Seen(55, 20)]

LookingLeft == [Facing EXCEPT !["nose"] = Seen(45, 20)]

Postures == {Facing, Kneeling, Profile, LookingRight, LookingLeft}

\* How a landmark is badly detected: with low visibility, at the corner of the
\* picture, or below its bottom edge.
Defective(landmark, defect) ==
    IF defect = "dim" THEN [landmark EXCEPT !.visibility = 10]
    ELSE IF defect = "corner" THEN [landmark EXCEPT !.x = 0, !.y = 0]
    ELSE [landmark EXCEPT !.y = 100]

LandmarkSets ==
    {[name \in DOMAIN posture |->
         IF name \in hidden THEN Defective(posture[name], defect) ELSE posture[name]] :
       posture \in Postures,
       hidden \in SUBSET {"nose", "left_shoulder", "right_knee", "left_wrist", "right_foot"},
       defect \in {"dim", "corner", "outside"}}
    \cup {NoLandmarks}

InitAngles ==
    /\ Constructed
    /\ NoCall
    /\ landmarks \in LandmarkSets
    /\ valid_angles = [key \in {} |-> 0]
    /\ computed = FALSE

ComputeAllAngles ==
    /\ ~computed
    /\ valid_angles' = compute_all_angles(landmarks)
    /\ computed' = TRUE
    /\ UNCHANGED <<landmarks, tracker_vars, scene_vars, server_vars, call_vars, realtime_vars>>

NextAngles == ComputeAllAngles

SpecAngles == InitAngles /\ [][NextAngles]_vars

\* ------------------------------------------- the classifier called directly

\* Longest angle_history handed to a direct call.
MaxCallLen == 3

ShallowCrouchFrame ==
    [left_knee_angle |-> 115, right_knee_angle |-> 112,
     left_hip_y |-> 50, right_hip_y |-> 50, left_shoulder_y |-> 30, right_shoulder_y |-> 30]

ClimberStrideFrame ==
    [left_knee_angle |-> 155, right_knee_angle |-> 125,
     left_elbow_angle |-> 170, right_elbow_angle |-> 168,
     left_shoulder_angle |-> 110, right_shoulder_angle |-> 112,
     left_hip_angle |-> 125, right_hip_angle |-> 145,
     left_hip_y |-> 65, right_hip_y |-> 65, left_shoulder_y |-> 45, right_shoulder_y |-> 45]

BentArmsPlankFrame ==
    [left_knee_angle |-> 100, right_knee_angle |-> 95,
     left_elbow_angle |-> 155, right_elbow_angle |-> 155,
     left_shoulder_angle |-> 118, right_shoulder_angle |-> 118,
     left_hip_y |-> 65, right_hip_y |-> 65, left_shoulder_y |-> 45, right_shoulder_y |-> 45]

\* A stride whose straighter leg is at 130 degrees exactly.
ShortStrideFrame == [left_knee_angle |-> 130, right_knee_angle |-> 105]

\* A stance with one leg bent further than the other and neither at 130.
ShuffleFrame == [left_knee_angle |-> 125, right_knee_angle |-> 100]

\* A plank with one hip bent, and the same plank a moment later: the bent hip
\* has opened by 10 degrees, the other has closed by 4.
SlowClimberFrame ==
    [left_elbow_angle |-> 170, right_elbow_angle |-> 168,
     left_shoulder_angle |-> 110, right_shoulder_angle |-> 112,
     left_hip_angle |-> 120, right_hip_angle |-> 150]

SlowClimberNextFrame ==
    [left_elbow_angle |-> 170, right_elbow_angle |-> 168,
     left_shoulder_angle |-> 110, right_shoulder_angle |-> 112,
     left_hip_angle |-> 130, right_hip_angle |-> 146]

\* A plank of which one hip angle could not be computed.
OneHipClimberFrame ==
    [left_elbow_angle |-> 170, right_elbow_angle |-> 168,
     left_shoulder_angle |-> 110, right_shoulder_angle |-> 112,
     right_hip_angle |-> 145]

CallPoses ==
    {NoAngles, CrouchFrame, ShallowCrouchFrame, ClimberFrame, Mirror(ClimberFrame),
     ClimberStrideFrame, BentArmsPlankFrame, StrideFrame, AirFrame,
     ShortStrideFrame, ShuffleFrame,
     SlowClimberFrame, SlowClimberNextFrame, OneHipClimberFrame}

CallHistories == UNION {[1 .. n -> CallPoses] : n \in 0 .. MaxCallLen}

\* prev_action: Optional[str] = None
PrevActions == Labels \cup {"none"}

InitCall ==
    /\ Constructed
    /\ NoExtraction
    /\ call_history \in CallHistories
    /\ call_prev \in PrevActions
    /\ call_result = "pending"

Classify ==
    /\ call_result = "pending"
    /\ call_result' = classify_action_from_history(call_history, call_prev)
    /\ UNCHANGED <<call_history, call_prev, tracker_vars, scene_vars, server_vars,
                   extractor_vars, realtime_vars>>

NextCall == Classify

SpecClassify == InitCall /\ [][NextCall]_vars

\* ------------------------- the classifier called on incomplete frames

\* Longest run of earlier frames before the latest frame of such a call.
MaxPrefixLen == 2

AngleKeys ==
    {"left_knee_angle", "right_knee_angle", "left_hip_angle", "right_hip_angle",
     "left_elbow_angle", "right_elbow_angle",
     "left_shoulder_angle", "right_shoulder_angle"}

HeightKeys == {"left_hip_y", "right_hip_y", "left_shoulder_y", "right_shoulder_y"}

\* The dict with only the keys in `keys`.
Restrict(frame, keys) == [key \in (DOMAIN frame) \cap keys |-> frame[key]]

\* Values no pose produces: knee angles below 0, elbow angles above 180 and
\* heights below the bottom edge of the picture (above 1.0).
OutOfRangeFrame ==
    [left_knee_angle |-> 0 - 10, right_knee_angle |-> 0 - 5,
     left_elbow_angle |-> 200, right_elbow_angle |-> 200,
     left_shoulder_angle |-> 100, right_shoulder_angle |-> 100,
     left_hip_y |-> 120, right_hip_y |-> 120,
     left_shoulder_y |-> 100, right_shoulder_y |-> 100]

\* The latest frame carries any of its angles and all of its heights, none,
\* or all but one.
LatestFrames ==
    {Restrict(pose, angles \cup heights) :
        pose \in {ClimberStrideFrame, BentArmsPlankFrame, OutOfRangeFrame},
        angles \in SUBSET AngleKeys,
        heights \in {HeightKeys, {}, HeightKeys \ {"left_hip_y"}}}

PrefixPoses == {NoAngles, CrouchFrame, Restrict(ClimberFrame, AngleKeys)}

Prefixes == UNION {[1 .. n -> PrefixPoses] : n \in 0 .. MaxPrefixLen}

PartialHistories == {Append(prefix, frame) : prefix \in Prefixes, frame \in LatestFrames}

InitPartial ==
    /\ Constructed
    /\ NoExtraction
    /\ call_history \in PartialHistories
    /\ call_prev \in PrevActions
    /\ call_result = "pending"

SpecPartial == InitPartial /\ [][NextCall]_vars

\* ------------------------------------- the examples the classifier ships

crouch_frames == <<CrouchExampleFrame>>

mountain_climber_frames ==
    <<[left_elbow_angle |-> 165, right_elbow_angle |-> 163,
       left_shoulder_angle |-> 110, right_shoulder_angle |-> 112,
       left_hip_angle |-> 125, right_hip_angle |-> 145],
      [left_elbow_angle |-> 167, right_elbow_angle |-> 161,
       left_shoulder_angle |-> 108, right_shoulder_angle |-> 113,
       left_hip_angle |-> 135, right_hip_angle |-> 130],
      [left_elbow_angle |-> 164, right_elbow_angle |-> 162,
       left_shoulder_angle |-> 109, right_shoulder_angle |-> 111,
       left_hip_angle |-> 150, right_hip_angle |-> 120]>>

running_frames == <<RunStepFrame, RunSwitchFrame>>

Examples == {crouch_frames, mountain_climber_frames, running_frames, jump_frames}

\* The examples, and every stretch of consecutive frames of an example.
ExampleHistories ==
    UNION {{SubSeq(example, i, j) : i \in 1 .. Len(example) + 1, j \in 0 .. Len(example)} :
              example \in Examples}

InitExamples ==
    /\ Constructed
    /\ NoExtraction
    /\ call_history \in ExampleHistories
    /\ call_prev \in PrevActions
    /\ call_result = "pending"

SpecExamples == InitExamples /\ [][NextCall]_vars

\* ---------------------------------------------- the realtime classifier

buffer_size == 5

\* A frame of pose landmarks is given by what the classifier measures on it:
\* the two knee angles (degrees), the hip and ankle heights (hundredths of the
\* frame height) and the torso angle, each absent when its landmarks are.
Measured(pose, key) == IF Has(pose, key) THEN <<pose[key]>> ELSE <<>>

get_knee_angle(pose, side) ==
    Measured(pose, IF side = "left" THEN "left_knee" ELSE "right_knee")

get_hip_height(pose) == Measured(pose, "hip_height")

get_ankle_height(pose) == Measured(pose, "ankle_height")

get_torso_angle(pose) == Measured(pose, "torso_angle")

RECURSIVE Collect(_, _)
\* The values a measurement takes over the buffer, frames without it left out.
Collect(buffer, key) ==
    IF buffer = <<>> THEN <<>>
    ELSE LET measured == IF key = "left_knee" THEN get_knee_angle(Head(buffer), "left")
                         ELSE IF key = "right_knee" THEN get_knee_angle(Head(buffer), "right")
                         ELSE IF key = "hip_height" THEN get_hip_height(Head(buffer))
                         ELSE IF key = "ankle_height" THEN get_ankle_height(Head(buffer))
                         ELSE get_torso_angle(Head(buffer))
         IN  measured \o Collect(Tail(buffer), key)

RECURSIVE SumOfSquares(_)
SumOfSquares(s) == IF s = <<>> THEN 0 ELSE Head(s) * Head(s) + SumOfSquares(Tail(s))

\* np.std(values) compared with a bound, without the square root.
StdAbove(values, bound) ==
    Len(values) * SumOfSquares(values) - SeqSum(values) * SeqSum(values)
        > bound * bound * Len(values) * Len(values)

StdBelow(values, bound) ==
    Len(values) * SumOfSquares(values) - SeqSum(values) * SeqSum(values)
        < bound * bound * Len(values) * Len(values)

\* The number of times the difference between the knee angles changes sign.
Crossovers(left_subset, right_subset) ==
    Cardinality({i \in 2 .. Len(left_subset) :
                   (left_subset[i - 1] - right_subset[i - 1])
                       * (left_subset[i] - right_subset[i]) < 0})

\* The features are kept as the lists they are computed from; `empty` is
\* whether the dictionary of features is.
analyze_temporal_patterns(buffer) ==
    LET left_knee_angles == Collect(buffer, "left_knee")
        right_knee_angles == Collect(buffer, "right_knee")
        knees == left_knee_angles # <<>> /\ right_knee_angles # <<>>
        min_len == Min2(Len(left_knee_angles), Len(right_knee_angles))
    IN  IF Len(buffer) < 3
        THEN [empty |-> TRUE, knees |-> FALSE, all_knee_angles |-> <<>>,
              leg_alternation |-> 0, hip_heights |-> <<>>, ankle_heights |-> <<>>,
              torso_angles |-> <<>>]
        ELSE [empty |-> /\ ~knees
                        /\ Collect(buffer, "hip_height") = <<>>
                        /\ Collect(buffer, "ankle_height") = <<>>
                        /\ Collect(buffer, "torso_angle") = <<>>,
              knees |-> knees,
              all_knee_angles |-> IF knees THEN left_knee_angles \o right_knee_angles
                                  ELSE <<>>,
              leg_alternation |->
                  IF knees /\ Len(left_knee_angles) >= 2 /\ Len(right_knee_angles) >= 2
                  THEN Crossovers(SubSeq(left_knee_angles, 1, min_len),
                                  SubSeq(right_knee_angles, 1, min_len))
                  ELSE 0,
              hip_heights |-> Collect(buffer, "hip_height"),
              ankle_heights |-> Collect(buffer, "ankle_height"),
              torso_angles |-> Collect(buffer, "torso_angle")]

\* max(values) - min(values) > 0.01, and 0 for a feature that is not there.
RangeAbove1(values) == values # <<>> /\ SeqMax(values) - SeqMin(values) > 1

classify_action(features) ==
    LET knee_angles == features.all_knee_angles
        n == Len(knee_angles)
    IN  IF features.empty THEN "none"
        ELSE IF features.knees /\ SeqSum(knee_angles) < 110 * n /\ StdBelow(knee_angles, 20)
        THEN "crouch"
        ELSE IF /\ features.knees /\ SeqSum(knee_angles) > 130 * n
                /\ RangeAbove1(features.ankle_heights)
                /\ features.leg_alternation < 2
        THEN "jump"
        ELSE IF /\ features.torso_angles # <<>>
                /\ SeqSum(features.torso_angles) < 60 * Len(features.torso_angles)
                /\ features.leg_alternation > 1
                /\ features.knees /\ StdAbove(knee_angles, 15)
        THEN "mountain_climber"
        ELSE IF /\ features.leg_alternation > 1
                /\ features.knees /\ StdAbove(knee_angles, 10)
                /\ RangeAbove1(features.hip_heights)
        THEN "run"
        ELSE "none"

\* deque(maxlen=buffer_size).append
AppendPose(buffer, pose) ==
    IF Len(buffer) >= buffer_size THEN Append(Tail(buffer), pose) ELSE Append(buffer, pose)

\* Faulty variant: a call without landmarks sets current_action to "none".
process_frame_none_resets(buffer, current, frame) ==
    IF frame = <<>>
    THEN [pose_buffer |-> buffer, current_action |-> "none", returned |-> "none"]
    ELSE LET appended == AppendPose(buffer, frame[1])
             label == classify_action(analyze_temporal_patterns(appended))
         IN  [pose_buffer |-> appended, current_action |-> label, returned |-> label]

\* What process_frame leaves behind and returns; `frame` is <<>> for None and
\* <<pose>> for landmarks.
process_frame(buffer, current, frame) ==
    IF frame = <<>>
    THEN [pose_buffer |-> buffer, current_action |-> current, returned |-> "none"]
    ELSE LET appended == AppendPose(buffer, frame[1])
             label == classify_action(analyze_temporal_patterns(appended))
         IN  [pose_buffer |-> appended, current_action |-> label, returned |-> label]

\* A crouch, the two strides of a run, a slow step, a player in the air and on
\* the ground again, and a player of whom only the hips are seen.
RealtimePoses ==
    {[left_knee |-> 90, right_knee |-> 95, hip_height |-> 70, ankle_height |-> 90,
      torso_angle |-> 20],
     [left_knee |-> 165, right_knee |-> 140, hip_height |-> 58, ankle_height |-> 90,
      torso_angle |-> 80],
     [left_knee |-> 140, right_knee |-> 165, hip_height |-> 61, ankle_height |-> 90,
      torso_angle |-> 80],
     [left_knee |-> 170, right_knee |-> 172, hip_height |-> 50, ankle_height |-> 80,
      torso_angle |-> 5],
     [hip_height |-> 60]}

ProcessPose(frame) ==
    \E done \in {process_frame(pose_buffer, current_action, frame)} :
        /\ pose_buffer' = done.pose_buffer
        /\ current_action' = done.current_action
        /\ last_call' = [method |-> "process_frame", argument |-> frame,
                         returned |-> done.returned]
        /\ UNCHANGED <<tracker_vars, scene_vars, server_vars, extractor_vars, call_vars>>

\* ActionClassifier.reset
Reset ==
    /\ pose_buffer' = <<>>
    /\ current_action' = "none"
    /\ last_call' = [method |-> "reset", argument |-> <<>>, returned |-> "none"]
    /\ UNCHANGED <<tracker_vars, scene_vars, server_vars, extractor_vars, call_vars>>

NextRealtime ==
    \/ \E pose \in RealtimePoses : ProcessPose(<<pose>>)
    \/ ProcessPose(<<>>)
    \/ Reset

SpecRealtime == Init /\ [][NextRealtime]_vars

\* ------------------------------------------------------------ properties

Held == {"crouch", "mountain_climber"}

\* C1 (hold law): when the raw label is crouch on a frame and unknown on each of
\* the following frames, the stable label is crouch on that frame and the next 8
\* and unknown on the 9th; when it is mountain_climber and then unknown, the
\* stable label is mountain_climber on that frame and the next 2 and unknown on
\* the 3rd.
HoldLaw ==
    \A s \in Sides :
        /\ (fired[s] = "crouch" /\ lapse[s] <= 8) => action[s] = "crouch"
        /\ (fired[s] = "crouch" /\ lapse[s] = 9) => action[s] = "unknown"
        /\ (fired[s] = "mountain_climber" /\ lapse[s] <= 2) => action[s] = "mountain_climber"
        /\ (fired[s] = "mountain_climber" /\ lapse[s] = 3) => action[s] = "unknown"

\* A crouch followed by nine frames with raw label unknown.
HoldLawWitness ==
    \E s \in Sides : fired[s] = "crouch" /\ lapse[s] = 9 /\ raw_action[s] = "unknown"

\* C2 (run and jump are not held): on a frame whose raw label is run or jump the
\* stable label is that label and the remaining hold is 0, whatever hold was in
\* progress; if the raw label of the next frame is unknown, so is its stable
\* label.
RunJumpNotHeld ==
    \A s \in Sides :
        /\ raw_action[s] \in {"run", "jump"} =>
              (action[s] = raw_action[s] /\ action_buffer[s] = 0)
        /\ (fired[s] \in {"run", "jump"} /\ lapse[s] >= 1) => action[s] = "unknown"

\* The frame after a run that fired while a crouch hold was in progress (the run
\* was not counted: only the crouch was).
RunJumpNotHeldWitness ==
    \E s \in Sides :
        /\ fired[s] = "run" /\ lapse[s] = 1
        /\ reps[s]["crouch"] = 1 /\ reps[s]["run"] = 0

\* C3 (rep-count law): on every frame of a stretch of frames with one stable
\* action X that began after a frame with stable label unknown, and after the
\* unknown frame that ends it, the rep counts are those before the stretch with
\* X's count one higher and all others equal, whatever the stretch's length.
RepCountLaw ==
    /\ [](\A s \in Sides :
            (action[s] # "unknown" /\ stretch_pred[s] = "unknown")
                => reps[s] = [stretch_base[s] EXCEPT ![action[s]] = @ + 1])
    /\ [][\A s \in Sides :
            (action[s] # "unknown" /\ stretch_pred[s] = "unknown" /\ action'[s] = "unknown")
                => reps'[s] = [stretch_base[s] EXCEPT ![action[s]] = @ + 1]]_vars

\* A crouch stretch of nine frames between unknown frames has just ended.
RepCountLawWitness ==
    \E s \in Sides :
        /\ action[s] = "unknown" /\ stretch_pred[s] = "crouch"
        /\ fired[s] = "crouch" /\ lapse[s] = 9
        /\ reps[s]["crouch"] = 1

\* C4 as claimed: every maximal stretch of one stable action X, whatever label
\* precedes it, adds exactly one to X's count: X's count is one higher than
\* before the stretch on every frame of the stretch and after the frame that
\* ends it.
OneRepPerStretch ==
    /\ [](\A s \in Sides :
            action[s] # "unknown"
                => reps[s][action[s]] = stretch_base[s][action[s]] + 1)
    /\ [][\A s \in Sides :
            (action[s] # "unknown" /\ action'[s] # action[s])
                => reps'[s][action[s]] = stretch_base[s][action[s]] + 1]_vars

\* What a stretch that began after the label `pred` adds to its action's count.
StretchGain(pred) == IF pred = "unknown" THEN 1 ELSE 0

\* C4 as amended: a maximal stretch of one stable action X adds one to X's count
\* when the frame before it had stable label unknown, and nothing when it
\* follows another action directly.
RepPerStretch ==
    /\ [](\A s \in Sides :
            action[s] # "unknown"
                => reps[s][action[s]]
                     = stretch_base[s][action[s]] + StretchGain(stretch_pred[s]))
    /\ [][\A s \in Sides :
            (action[s] # "unknown" /\ action'[s] # action[s])
                => reps'[s][action[s]]
                     = stretch_base[s][action[s]] + StretchGain(stretch_pred[s])]_vars

\* A crouch stretch that follows a run directly and has not been counted.
RepPerStretchWitness ==
    \E s \in Sides :
        /\ action[s] = "crouch" /\ stretch_pred[s] = "run"
        /\ reps[s]["crouch"] = 0

\* The run conditions other than the cooldown: alternating knees, arm movement
\* and proper running position.
RunGeometry(h) ==
    /\ Len(h) >= 1
    /\ alternating_knees(Latest(h))
    /\ arm_movement(h)
    /\ proper_running_position(Latest(h))

\* C5 as claimed: on a frame classified with previous stable action crouch or
\* mountain_climber the raw label is never run.
RunCooldown ==
    \A s \in Sides : last_prev[s] \in Held => raw_action[s] # "run"

\* Both knees present and below 130.
KneesBelow130(frame) ==
    /\ {"left_knee_angle", "right_knee_angle"} \subseteq DOMAIN frame
    /\ frame["left_knee_angle"] < 130 /\ frame["right_knee_angle"] < 130

\* Both elbows above 150 and both shoulders below 125, all four present.
ArmsOut150Hunched125(frame) ==
    /\ {"left_elbow_angle", "right_elbow_angle",
        "left_shoulder_angle", "right_shoulder_angle"} \subseteq DOMAIN frame
    /\ frame["left_elbow_angle"] > 150 /\ frame["right_elbow_angle"] > 150
    /\ frame["left_shoulder_angle"] < 125 /\ frame["right_shoulder_angle"] < 125

\* One of the last three frames of h (all of h when it is shorter) shows bent
\* knees or the plank pose, and h has at least two frames.
RecentlyDown(h) ==
    /\ Len(h) >= 2
    /\ \E i \in DOMAIN h :
          /\ i > Len(h) - 3
          /\ (KneesBelow130(h[i]) \/ ArmsOut150Hunched125(h[i]))

\* C5 as amended: on a frame classified with previous stable action crouch or
\* mountain_climber, whose history has at least two frames of which one of the
\* last three has both knees below 130 or both elbows above 150 with both
\* shoulders below 125, the raw label is never run.
RunCooldownRecent ==
    \A s \in Sides :
        (last_prev[s] \in Held /\ RecentlyDown(angle_history[s]))
            => raw_action[s] # "run"

\* The run geometry holds right after a crouch and the raw label is not run.
RunCooldownRecentWitness ==
    \E s \in Sides :
        /\ last_prev[s] = "crouch" /\ RecentlyDown(angle_history[s])
        /\ RunGeometry(angle_history[s])
        /\ raw_action[s] = "unknown"

\* C6 (cooldown law for jump): on a frame classified with previous stable action
\* crouch or mountain_climber the raw label is never jump, so the stable label
\* never goes from crouch or mountain_climber directly to jump.
JumpCooldown ==
    \A s \in Sides :
        last_prev[s] \in Held => (raw_action[s] # "jump" /\ action[s] # "jump")

\* The hips rise by more than the jump threshold during a crouch hold, more than
\* three frames after the crouch, and the raw label is not jump.
JumpCooldownWitness ==
    \E s \in Sides :
        /\ last_prev[s] = "crouch"
        /\ Len(angle_history[s]) >= 3
        /\ ~RecentlyDown(angle_history[s])
        /\ jump_pattern(angle_history[s])
        /\ raw_action[s] = "unknown"

\* The rule predicates, each by itself.
Fires(label, h, prev) ==
    /\ Len(h) >= 1
    /\ CASE label = "crouch" -> is_crouching(Latest(h))
         [] label = "mountain_climber" -> mountain_climber_detected(h)
         [] label = "run" -> run_detected(h, prev)
         [] label = "jump" -> jump_detected(h, prev)

Priority == <<"crouch", "mountain_climber", "run", "jump">>

\* The label of the first predicate in priority order that is true, or unknown.
FirstFiring(h, prev) ==
    LET firing == {i \in DOMAIN Priority : Fires(Priority[i], h, prev)}
    IN  IF firing = {} THEN "unknown"
        ELSE Priority[CHOOSE i \in firing : \A j \in firing : i <= j]

\* C7 (priority law): the raw label is the first true predicate in the order
\* crouch > mountain_climber > run > jump, and unknown iff none is true; when
\* the crouch predicate is true the raw label is crouch.
PriorityLaw ==
    call_result # "pending" =>
        /\ call_result = FirstFiring(call_history, call_prev)
        /\ Fires("crouch", call_history, call_prev) => call_result = "crouch"

\* Two predicates are true at once and the higher one won: crouch over jump.
PriorityLawWitness ==
    /\ call_result = "crouch"
    /\ Fires("jump", call_history, call_prev)

\* Both knee angles present and below 120.
KneesBelow120(frame) ==
    /\ {"left_knee_angle", "right_knee_angle"} \subseteq DOMAIN frame
    /\ frame["left_knee_angle"] < 120 /\ frame["right_knee_angle"] < 120

\* All four arm angles present, both elbows above e and both shoulders below sh.
ArmPose(frame, e, sh) ==
    /\ {"left_elbow_angle", "right_elbow_angle",
        "left_shoulder_angle", "right_shoulder_angle"} \subseteq DOMAIN frame
    /\ frame["left_elbow_angle"] > e /\ frame["right_elbow_angle"] > e
    /\ frame["left_shoulder_angle"] < sh /\ frame["right_shoulder_angle"] < sh

\* C8 as claimed: a latest frame with both knees below 120 that is not in the
\* mountain-climber pose (elbows above 160, shoulders below 115) is classified
\* crouch, for any history and previous action.
CrouchUnlessClimberPose ==
    (/\ call_result # "pending"
     /\ Len(call_history) >= 1
     /\ KneesBelow120(Latest(call_history))
     /\ ~ArmPose(Latest(call_history), 160, 115))
        => call_result = "crouch"

\* C8 as amended: a latest frame with both knees below 120 that does not have
\* both elbows above 150 together with both shoulders below 120 is classified
\* crouch, for any history and previous action.
CrouchUnlessPlankPose ==
    (/\ call_result # "pending"
     /\ Len(call_history) >= 1
     /\ KneesBelow120(Latest(call_history))
     /\ ~ArmPose(Latest(call_history), 150, 120))
        => call_result = "crouch"

\* A shallow crouch (knees between 110 and 120) after two other frames, called
\* with previous action run, is classified crouch.
CrouchUnlessPlankPoseWitness ==
    /\ call_result = "crouch"
    /\ Len(call_history) = 3
    /\ call_prev = "run"
    /\ Latest(call_history)["left_knee_angle"] > 110

\* C9 (hysteresis on a firing frame): when the raw label of a frame is not
\* unknown, the stable label of that frame is the raw label and the remaining
\* hold is the hold length of that label (crouch 8, mountain_climber 2, run 0,
\* jump 0), whatever hold was in progress.
FiringSetsHold ==
    \A s \in Sides :
        raw_action[s] # "unknown" =>
            /\ action[s] = raw_action[s]
            /\ action_buffer[s] = (CASE raw_action[s] = "crouch" -> 8
                                     [] raw_action[s] = "mountain_climber" -> 2
                                     [] raw_action[s] = "run" -> 0
                                     [] raw_action[s] = "jump" -> 0)

\* A mountain climber fires while a crouch hold is in progress and cuts the
\* remaining hold to 2.
FiringSetsHoldWitness ==
    \E s \in Sides :
        /\ raw_action[s] = "mountain_climber"
        /\ last_prev[s] = "crouch"
        /\ action_buffer[s] = 2

\* C10 (state ranges): the remaining hold is an integer from 0 to 8 and the
\* stable label is one of the five labels.
HoldAndLabelRange ==
    \A s \in Sides :
        /\ action_buffer[s] \in 0 .. 8
        /\ action[s] \in {"unknown", "crouch", "mountain_climber", "run", "jump"}

\* A hold has run down from 8 to 0 and the label has gone back to unknown.
HoldAndLabelRangeWitness ==
    \E s \in Sides :
        /\ fired[s] = "crouch" /\ lapse[s] = 9
        /\ action_buffer[s] = 0 /\ action[s] = "unknown"

\* C11 (rep counts only increase): every rep count is a non-negative integer,
\* no frame lowers any of them, and a frame raises the sum of a side's four
\* counts by at most 1.
RepsOnlyIncrease ==
    /\ [](\A s \in Sides : \A a \in Counted : reps[s][a] \in Nat)
    /\ [][\A s \in Sides :
            /\ \A a \in Counted : reps'[s][a] >= reps[s][a]
            /\ RepTotal(reps'[s]) <= RepTotal(reps[s]) + 1]_vars

\* A run has been counted after a crouch was: two counts stand at 1.
RepsOnlyIncreaseWitness ==
    \E s \in Sides :
        /\ reps[s]["crouch"] = 1 /\ reps[s]["run"] = 1
        /\ raw_action[s] = "run" /\ last_prev[s] = "unknown"

\* C19 as claimed: after every frame a side is either idle (stable label
\* unknown, remaining hold 0) or holding (stable label not unknown, remaining
\* hold above 0).
IdleOrHolding ==
    \A s \in Sides :
        \/ (action[s] = "unknown" /\ action_buffer[s] = 0)
        \/ (action[s] # "unknown" /\ action_buffer[s] > 0)

\* C19 as amended: after every frame a side is either idle (unknown, remaining
\* hold 0) or shows a label with a remaining hold from 0 up to that label's
\* hold length: crouch 0..8, mountain_climber 0..2, run 0, jump 0.
IdleOrLabelled ==
    \A s \in Sides :
        \/ (action[s] = "unknown" /\ action_buffer[s] = 0)
        \/ (action[s] = "crouch" /\ action_buffer[s] \in 0 .. 8)
        \/ (action[s] = "mountain_climber" /\ action_buffer[s] \in 0 .. 2)
        \/ (action[s] \in {"run", "jump"} /\ action_buffer[s] = 0)

\* The last frame of a crouch hold: the label is still crouch and the remaining
\* hold has reached 0.
IdleOrLabelledWitness ==
    \E s \in Sides :
        /\ fired[s] = "crouch" /\ lapse[s] = 8
        /\ action[s] = "crouch" /\ action_buffer[s] = 0

\* C20 (initial state): a side that has received no frame has stable label
\* unknown, previous stable label unknown, remaining hold 0, an empty history
\* and all four rep counts 0, and classifying an empty history returns unknown.
InitialState ==
    /\ \A s \in Sides :
          /\ action[s] = "unknown"
          /\ prev_action[s] = "unknown"
          /\ action_buffer[s] = 0
          /\ Len(angle_history[s]) = 0
          /\ \A a \in {"crouch", "mountain_climber", "run", "jump"} : reps[s][a] = 0
    /\ (call_history = <<>> /\ call_result # "pending") => call_result = "unknown"

\* The classifier has been called on an empty history, with previous action
\* crouch, beside a tracker that has not received a frame.
InitialStateWitness ==
    /\ call_history = <<>> /\ call_prev = "crouch" /\ call_result = "unknown"
    /\ \A s \in Sides : angle_history[s] = <<>>

\* A key of the latest frame of the call is absent.
Lacks(keys) == \E key \in keys : key \notin DOMAIN Latest(call_history)

\* How many of the last three frames of the call carry all four heights.
HeightFrames ==
    Cardinality({i \in DOMAIN call_history :
                    i > Len(call_history) - 3 /\ HeightKeys \subseteq DOMAIN call_history[i]})

\* C16 (missing evidence): whatever keys the frames of a non-empty history lack,
\* the classifier returns one of the five labels, and a predicate whose angle is
\* absent is false: without both knees of the latest frame there is no crouch
\* and no alternating stance (so no run), without both elbows no straight arms
\* and without both shoulders no hunched back (so no mountain_climber), without
\* both hips of the latest frame no alternating hips, and with fewer than two
\* of the last three frames carrying all four heights no jump.
MissingEvidence ==
    (call_result # "pending" /\ call_history # <<>>) =>
        /\ call_result \in {"unknown", "crouch", "mountain_climber", "run", "jump"}
        /\ Lacks({"left_knee_angle", "right_knee_angle"}) =>
              /\ ~is_crouching(Latest(call_history))
              /\ ~alternating_knees(Latest(call_history))
              /\ call_result \notin {"crouch", "run"}
        /\ Lacks({"left_elbow_angle", "right_elbow_angle"}) =>
              /\ ~straight_arms(Latest(call_history))
              /\ call_result # "mountain_climber"
        /\ Lacks({"left_shoulder_angle", "right_shoulder_angle"}) =>
              /\ ~hunched_back(Latest(call_history))
              /\ call_result # "mountain_climber"
        /\ Lacks({"left_hip_angle", "right_hip_angle"}) =>
              /\ ~alternating_hips(call_history)
              /\ Len(call_history) >= 3 => call_result # "mountain_climber"
        /\ HeightFrames < 2 => call_result # "jump"

\* The latest of three frames lacks only its right knee angle, and with it the
\* alternating stance: the call does not return run but falls through to jump.
MissingEvidenceWitness ==
    /\ call_result = "jump"
    /\ Len(call_history) = 3
    /\ DOMAIN Latest(call_history)
         = (AngleKeys \cup HeightKeys) \ {"right_knee_angle", "left_elbow_angle"}

\* Whether the value of a field is in the range of its kind: 0 to 180 degrees
\* for an angle, 0 to 1 (100 hundredths) for a height.
InRange(key, value) ==
    IF key \in HeightKeys THEN value \in 0 .. 100 ELSE value \in 0 .. 180

\* The frame without its out-of-range fields.
WithoutOutOfRange(frame) ==
    Restrict(frame, {key \in DOMAIN frame : InRange(key, frame[key])})

\* C17 as claimed: a field whose value is out of range has the same effect on
\* the raw label as an absent field: the call returns what it returns for the
\* history with the out-of-range fields taken out.
OutOfRangeAsAbsent ==
    call_result # "pending" =>
        call_result = classify_action_from_history(
                          [i \in DOMAIN call_history |-> WithoutOutOfRange(call_history[i])],
                          call_prev)

\* The frames of a log that carry at least one angle.
WithAngles(log) == SelectSeq(log, LAMBDA frame : DOMAIN frame # {})

\* C12 (history buffer bound and FIFO order): a side's buffer holds at most 5
\* frames and is the last min(n, 5) of the n frames appended so far (the frames
\* received with at least one angle), in the order of their arrival.
HistoryIsFifo ==
    \A s \in Sides :
        LET appended == WithAngles(arrivals[s])
            n == Len(appended)
            kept == IF n < 5 THEN n ELSE 5
        IN  /\ Len(angle_history[s]) <= 5
            /\ Len(angle_history[s]) = kept
            /\ \A i \in 1 .. kept : angle_history[s][i] = appended[n - kept + i]

\* Seven frames have been appended on a side; the two oldest, the first of
\* which was unlike the one now at the head of the buffer, have been evicted.
HistoryIsFifoWitness ==
    \E s \in Sides :
        /\ Len(WithAngles(arrivals[s])) = 7
        /\ WithAngles(arrivals[s])[1] # angle_history[s][1]

\* C18 as claimed: every frame a side receives, a frame without angles
\* included, is appended to the side's buffer, so that the buffer is the last
\* five frames received and its latest entry the frame just received.
EveryFrameAppended ==
    \A s \in Sides :
        arrivals[s] # <<>> =>
            /\ angle_history[s] # <<>>
            /\ Latest(angle_history[s]) = Latest(arrivals[s])
            /\ angle_history[s] = LastN(arrivals[s], 5)

\* C18 as amended: a frame with at least one angle is appended before the rules
\* are evaluated and is the latest entry of the buffer they see; a frame
\* without angles is not appended: the buffer stays as it is and the rules are
\* evaluated on it, its latest entry being the last frame that had angles.
EveryPoseAppended ==
    [][\A s \in Sides :
          Len(arrivals'[s]) > Len(arrivals[s]) =>
              /\ IF DOMAIN Latest(arrivals'[s]) = {}
                 THEN angle_history'[s] = angle_history[s]
                 ELSE /\ Len(angle_history'[s]) >= 1
                      /\ Latest(angle_history'[s]) = Latest(arrivals'[s])
              /\ raw_action'[s] =
                    IF Len(angle_history'[s]) = 0 THEN "unknown"
                    ELSE classify_action_from_history(angle_history'[s], prev_action[s])]_vars

\* A side has just received a frame without angles and the rules, evaluated on
\* the crouch frame still at the end of its buffer, have detected crouch again.
EveryPoseAppendedWitness ==
    \E s \in Sides :
        /\ Len(arrivals[s]) >= 2
        /\ DOMAIN Latest(arrivals[s]) = {}
        /\ raw_action[s] = "crouch"

\* Side s of the tracker is in the state of side s of the tracker that has been
\* shown side s only.
SameAsAlone(s) ==
    /\ raw_action[s] = alone[s].raw_action[s]
    /\ action[s] = alone[s].action[s]
    /\ action_buffer[s] = alone[s].action_buffer[s]
    /\ angle_history[s] = alone[s].angle_history[s]
    /\ reps[s] = alone[s].reps[s]

\* C13 (track independence): after every frame a side's raw label, stable
\* label, remaining hold, history buffer and rep counts are those of a run with
\* the same frames on that side and no frames at all on the other side; hence
\* they are the same in any two runs that agree on that side's frames.
TrackIndependence == \A s \in Sides : SameAsAlone(s)

\* The two sides have gone different ways: a crouch counted on the left, a run
\* on the right.
TrackIndependenceWitness ==
    /\ action["left"] = "crouch" /\ reps["left"]["crouch"] = 1
    /\ action["right"] = "run" /\ reps["right"]["run"] = 1
    /\ alone["left"].action["right"] = "unknown"

\* C14 (failure isolation): on a frame on which the rule evaluation of a side
\* raised, that side's raw label is unknown, the other side's raw label, stable
\* label, remaining hold, history and rep counts are those of the run in which
\* the failing side never was evaluated, and process_frame has run to its last
\* statement (the previous actions are the stable labels of the frame).
FailureIsolation ==
    \A s \in Sides :
        raised[s] =>
            /\ raw_action[s] = "unknown"
            /\ \A t \in Sides \ {s} : SameAsAlone(t)
            /\ prev_action = action

\* The evaluation of the left side raised on the frame on which the right side
\* detected a crouch and counted it.
FailureIsolationWitness ==
    /\ raised["left"]
    /\ raw_action["right"] = "crouch" /\ last_prev["right"] = "unknown"
    /\ reps["right"]["crouch"] = 1 /\ action_buffer["right"] = 8

\* C15 as claimed: on a frame on which the rule evaluation of a side raised, the
\* stable label of that side is unknown, also during a hold.
ErrorShowsUnknown == \A s \in Sides : raised[s] => action[s] = "unknown"

\* C15 as amended: on a frame on which the rule evaluation of a side raised, the
\* raw label of that side is unknown; its stable label is unknown if no hold was
\* in progress, and during a hold the held label is kept and the remaining hold
\* goes down by one.
ErrorCountsAsUndetected ==
    [][\A s \in Sides :
          raised'[s] =>
              /\ raw_action'[s] = "unknown"
              /\ IF action_buffer[s] > 0
                 THEN action'[s] = action[s] /\ action_buffer'[s] = action_buffer[s] - 1
                 ELSE action'[s] = "unknown" /\ action_buffer'[s] = 0]_vars

\* The rule evaluation raised on the frame after a crouch: the label is still
\* crouch and 7 frames of the hold remain.
ErrorCountsAsUndetectedWitness ==
    \E s \in Sides :
        /\ raised[s] /\ raw_action[s] = "unknown"
        /\ action[s] = "crouch" /\ action_buffer[s] = 7

\* The record of side s in the last message sent.
PlayerRecord(s) == latest_pose_data.players[IF s = "left" THEN 1 ELSE 2]

\* The rep counts of side s in the debug part of the last message sent.
DebugReps(s) ==
    IF s = "left" THEN latest_pose_data.debug.left_reps
    ELSE latest_pose_data.debug.right_reps

\* C21 as claimed: in every message sent, the action field of a side's record
\* is one of the five labels, and the record has a rep_counts field with the
\* side's four current counts.
OutputRecord ==
    sent =>
        \A s \in Sides :
            /\ PlayerRecord(s).action \in {"unknown", "crouch", "mountain_climber", "run", "jump"}
            /\ "rep_counts" \in DOMAIN PlayerRecord(s)
            /\ PlayerRecord(s)["rep_counts"] = reps[s]

\* C21 as amended: in every message sent, the action field of a side's record
\* is the side's stable label if that is crouch, mountain_climber, run or jump
\* and null if it is unknown; the record has no rep_counts field, and the
\* side's four current counts are in the message's debug part, under left_reps
\* and right_reps.
OutputRecordNull ==
    sent =>
        \A s \in Sides :
            /\ PlayerRecord(s).action \in {"crouch", "mountain_climber", "run", "jump", None}
            /\ PlayerRecord(s).action = (IF action[s] = "unknown" THEN None ELSE action[s])
            /\ "rep_counts" \notin DOMAIN PlayerRecord(s)
            /\ \A a \in {"crouch", "mountain_climber", "run", "jump"} :
                  DebugReps(s)[a] = reps[s][a]

\* A message sent on the third pass, after a running step was counted and the
\* label went back to unknown: the action field is null and the count is 1.
OutputRecordNullWitness ==
    /\ sent /\ frames = 3
    /\ action["left"] = "unknown"
    /\ PlayerRecord("left").action = None
    /\ DebugReps("left")["run"] = 1

\* Where a landmark is seen, if it is seen well enough to be used: visible,
\* not at the corner of the picture and not on or beyond its right or bottom
\* edge.
SeenAt(name) ==
    IF /\ name \in DOMAIN landmarks
       /\ landmarks[name].visibility >= 30
       /\ (landmarks[name].x > 0 \/ landmarks[name].y > 0)
       /\ landmarks[name].x < 100 /\ landmarks[name].y < 100
    THEN {<<landmarks[name].x, landmarks[name].y>>}
    ELSE {}

\* Whether an angle can be computed from the landmarks: the angle at a joint
\* needs its three landmarks, with the joint apart from the other two; the head
\* turn needs the nose and two shoulders that are apart, as it is measured
\* along the line through them; the neck angle needs the nose apart from the
\* middle of the shoulders.
Computable(key) ==
    IF key \in DOMAIN JointLandmarks
    THEN \E a \in SeenAt(JointLandmarks[key][1]), b \in SeenAt(JointLandmarks[key][2]),
            c \in SeenAt(JointLandmarks[key][3]) : a # b /\ c # b
    ELSE \E l \in SeenAt("left_shoulder"), r \in SeenAt("right_shoulder"),
            n \in SeenAt("nose") :
            IF key = "head_turn_angle" THEN l # r
            ELSE <<2 * n[1], 2 * n[2]>> # <<l[1] + r[1], l[2] + r[2]>>

\* C22 as claimed: an angle that cannot be computed from the landmarks is not
\* a key of the dict compute_all_angles returns, so that it is neither mapped
\* to null nor reported as a number such as 0; every key of the dict is mapped
\* to an angle.
UncomputableOmitted ==
    computed =>
        /\ \A key \in DOMAIN valid_angles : valid_angles[key] \in (0 - 180) .. 180
        /\ \A key \in AngleNames : ~Computable(key) => key \notin DOMAIN valid_angles

\* C23 (rep counter step): on every frame, with the stable label of the frame
\* computed, the count of that label goes up by exactly 1 if the previous
\* stable label was unknown and the new one is not, and otherwise no count
\* changes (a change from one label other than unknown to another is not
\* counted); the previous stable label then is the stable label of the frame.
RepCounterStep ==
    [][\A s \in Sides :
          /\ reps'[s] =
                IF prev_action[s] = "unknown" /\ action'[s] # "unknown"
                THEN [a \in {"crouch", "mountain_climber", "run", "jump"} |->
                         IF a = action'[s] THEN reps[s][a] + 1 ELSE reps[s][a]]
                ELSE reps[s]
          /\ prev_action'[s] = action'[s]]_vars

\* A mountain climber has taken over from a crouch directly: the crouch was
\* counted, the mountain climber was not.
RepCounterStepWitness ==
    \E s \in Sides :
        /\ last_prev[s] = "crouch" /\ action[s] = "mountain_climber"
        /\ prev_action[s] = "mountain_climber"
        /\ reps[s]["crouch"] = 1 /\ reps[s]["mountain_climber"] = 0

\* C24 as claimed: the raw label is jump only if at least 3 frames of the
\* window (the last three frames) each carry all four heights.
JumpNeedsThreeHeightFrames ==
    call_result = "jump" => HeightFrames >= 3

\* C24 as amended: the raw label is jump only if the history has at least 3
\* frames and at least 2 of its last 3 frames each carry all four heights.
JumpNeedsTwoHeightFrames ==
    call_result = "jump" => (Len(call_history) >= 3 /\ HeightFrames >= 2)

\* A jump detected in a history of three frames of which the first carries no
\* height.
JumpNeedsTwoHeightFramesWitness ==
    /\ call_result = "jump"
    /\ Len(call_history) = 3
    /\ HeightFrames = 2
    /\ DOMAIN call_history[1] \cap HeightKeys = {}

\* Both knee angles present and below 110.
KneesBelow110(frame) ==
    /\ {"left_knee_angle", "right_knee_angle"} \subseteq DOMAIN frame
    /\ frame["left_knee_angle"] < 110 /\ frame["right_knee_angle"] < 110

\* C25 as claimed: the raw label is never jump when the latest frame is a
\* deep-crouch pose (both knees below 110) or a mountain-climber pose (both
\* shoulders below 115 and both elbows above 160), whatever the heights and
\* whether or not the latest frame has its knee angles.
JumpPoseExclusion ==
    (call_result = "jump" /\ Len(call_history) >= 1) =>
        /\ ~KneesBelow110(Latest(call_history))
        /\ ~ArmPose(Latest(call_history), 160, 115)

\* C26 as claimed: the raw label is run only if the latest frame has both knee
\* angles, they differ by more than 20, they are not both below 90 and at
\* least one of them is above 130.
RunStance ==
    call_result = "run" =>
        LET cur == Latest(call_history)
        IN  /\ {"left_knee_angle", "right_knee_angle"} \subseteq DOMAIN cur
            /\ Abs(cur["left_knee_angle"] - cur["right_knee_angle"]) > 20
            /\ ~(cur["left_knee_angle"] < 90 /\ cur["right_knee_angle"] < 90)
            /\ (cur["left_knee_angle"] > 130 \/ cur["right_knee_angle"] > 130)

\* C26 as amended: the raw label is run only if the latest frame has both knee
\* angles, they differ by more than 20, they are not both below 90 and at
\* least one of them is 130 or more.
RunStanceFrom130 ==
    call_result = "run" =>
        LET cur == Latest(call_history)
        IN  /\ {"left_knee_angle", "right_knee_angle"} \subseteq DOMAIN cur
            /\ Abs(cur["left_knee_angle"] - cur["right_knee_angle"]) > 20
            /\ ~(cur["left_knee_angle"] < 90 /\ cur["right_knee_angle"] < 90)
            /\ (cur["left_knee_angle"] >= 130 \/ cur["right_knee_angle"] >= 130)

\* A run detected on a frame whose straighter leg is at 130 exactly.
RunStanceFrom130Witness ==
    /\ call_result = "run"
    /\ Latest(call_history)["left_knee_angle"] = 130
    /\ Latest(call_history)["right_knee_angle"] = 105

\* An elbow angle of the latest frame of the call differs by more than 10 from
\* its value in the frame before.
ElbowMoved ==
    /\ Len(call_history) >= 2
    /\ \E key \in {"left_elbow_angle", "right_elbow_angle"} :
          /\ key \in DOMAIN call_history[Len(call_history)]
          /\ key \in DOMAIN call_history[Len(call_history) - 1]
          /\ Abs(call_history[Len(call_history)][key]
                   - call_history[Len(call_history) - 1][key]) > 10

\* The latest frame of the call has neither elbow angle.
NoElbows ==
    DOMAIN call_history[Len(call_history)]
        \cap {"left_elbow_angle", "right_elbow_angle"} = {}

\* The conditions of run other than arm movement hold on the call, and neither
\* crouch nor mountain_climber is detected.
RunButForArms ==
    /\ ~is_crouching(Latest(call_history))
    /\ ~mountain_climber_detected(call_history)
    /\ alternating_knees(Latest(call_history))
    /\ proper_running_position(Latest(call_history))
    /\ ~action_buffer_active(call_history, call_prev)

\* C27 as claimed: the arm-movement condition of run holds iff an elbow angle
\* differs by more than 10 from its value in the previous frame or the latest
\* frame has neither elbow angle, the latter for a history of any length, a
\* single frame included; so when the other conditions of run hold, the raw
\* label is run iff it does.
ArmMovementAnyLength ==
    (call_result # "pending" /\ Len(call_history) >= 1) =>
        /\ arm_movement(call_history) <=> (ElbowMoved \/ NoElbows)
        /\ RunButForArms => (call_result = "run" <=> (ElbowMoved \/ NoElbows))

\* C27 as amended: the arm-movement condition of run holds iff the history has
\* at least two frames and either an elbow angle differs by more than 10 from
\* its value in the previous frame or the latest frame has neither elbow
\* angle; on a history of a single frame it does not hold.
ArmMovementFromTwoFrames ==
    (call_result # "pending" /\ Len(call_history) >= 1) =>
        /\ arm_movement(call_history)
              <=> (Len(call_history) >= 2 /\ (ElbowMoved \/ NoElbows))
        /\ RunButForArms =>
              (call_result = "run" <=> (Len(call_history) >= 2 /\ (ElbowMoved \/ NoElbows)))

\* A single frame in a running stance without elbow angles: the call does not
\* return run.
ArmMovementFromTwoFramesWitness ==
    /\ call_result = "unknown"
    /\ Len(call_history) = 1
    /\ NoElbows
    /\ RunButForArms

\* The last three frames of the call, oldest first (the call has three frames
\* at least).
Window == SubSeq(call_history, Len(call_history) - 2, Len(call_history))

\* The spread of a hip angle over the window.
HipRange(key) ==
    LET values == {Window[i][key] : i \in 1 .. 3}
    IN  (CHOOSE hi \in values : \A v \in values : v <= hi)
          - (CHOOSE lo \in values : \A v \in values : lo <= v)

\* The change of a hip angle from the first frame of the window to the last.
HipTrend(key) == Window[3][key] - Window[1][key]

\* The alternating-hip evidence of the claim: every frame of the window has
\* both hip angles, the hips of the latest frame differ by more than 15, and
\* either a hip's spread over the window is above 12, or the two hip trends
\* have opposite signs and one of them is above 8 in magnitude.
HipsAlternate ==
    /\ Len(call_history) >= 3
    /\ \A i \in 1 .. 3 : {"left_hip_angle", "right_hip_angle"} \subseteq DOMAIN Window[i]
    /\ Abs(Window[3]["left_hip_angle"] - Window[3]["right_hip_angle"]) > 15
    /\ \/ HipRange("left_hip_angle") > 12
       \/ HipRange("right_hip_angle") > 12
       \/ /\ \/ (HipTrend("left_hip_angle") > 0 /\ HipTrend("right_hip_angle") < 0)
             \/ (HipTrend("left_hip_angle") < 0 /\ HipTrend("right_hip_angle") > 0)
          /\ \/ Abs(HipTrend("left_hip_angle")) > 8
             \/ Abs(HipTrend("right_hip_angle")) > 8

ClimberExample ==
    \A s \in Sides :
        arrivals[s] = <<ClimberKickFrame, ClimberSwitchFrame, ClimberKickFrame>> =>
            /\ raw_action[s] = "mountain_climber"
            /\ reps[s]["mountain_climber"] = 1

\* C29 as amended: on a fresh side the raw label is mountain_climber on the
\* first and second frame of the example (fewer than 3 frames of history) and
\* unknown on the third, whose hips differ by 15 and not by more; the stable
\* label is mountain_climber on all three frames, held on the third, and the
\* mountain_climber count is 1 from the first frame on.
ClimberExampleHeld ==
    \A s \in Sides :
        /\ (\/ arrivals[s] = <<ClimberKickFrame>>
            \/ arrivals[s] = <<ClimberKickFrame, ClimberSwitchFrame>>) =>
              /\ raw_action[s] = "mountain_climber"
              /\ action[s] = "mountain_climber"
              /\ reps[s]["mountain_climber"] = 1
        /\ arrivals[s] = <<ClimberKickFrame, ClimberSwitchFrame, ClimberKickFrame>> =>
              /\ raw_action[s] = "unknown"
              /\ action[s] = "mountain_climber"
              /\ reps[s]["mountain_climber"] = 1

\* The three frames of the example have been received on the left side.
ClimberExampleHeldWitness ==
    /\ arrivals["left"] = <<ClimberKickFrame, ClimberSwitchFrame, ClimberKickFrame>>
    /\ action_buffer["left"] = 1

\* C30 (running example): on a fresh side, the frame with knees (155,125)
\* followed by the frame with knees (130,160) and elbows that have moved by
\* more than 10 gives raw label unknown on the first frame and run on the
\* second, stable label run on the second and a run count of 1.
RunExample ==
    \A s \in Sides :
        /\ arrivals[s] = <<RunStepFrame>> =>
              (raw_action[s] = "unknown" /\ reps[s]["run"] = 0)
        /\ arrivals[s] = <<RunStepFrame, RunSwitchFrame>> =>
              /\ raw_action[s] = "run"
              /\ action[s] = "run"
              /\ reps[s]["run"] = 1

\* The two frames of the example have been received on the right side.
RunExampleWitness ==
    /\ arrivals["right"] = <<RunStepFrame, RunSwitchFrame>>
    /\ last_prev["right"] = "unknown"
    /\ action["right"] = "run"

\* Twice the mean height of the hips, and twice the length of the torso.
HipHeight(frame) == frame.left_hip_y + frame.right_hip_y

TorsoSize(frame) ==
    Abs(HipHeight(frame) - (frame.left_shoulder_y + frame.right_shoulder_y))

TorsoSizes(log) == [i \in DOMAIN log |-> TorsoSize(log[i])]

\* The torso of the frames of `log` varies by less than 15% of its mean.
SteadyTorso(log) ==
    (SeqMax(TorsoSizes(log)) - SeqMin(TorsoSizes(log))) * Len(log) * 100
        < 15 * SeqSum(TorsoSizes(log))

\* The hips of frame k are above those of frame j by more than 8% of the mean
\* torso of `log`.
Risen(log, j, k) ==
    (HipHeight(log[j]) - HipHeight(log[k])) * Len(log) * 100
        > 8 * SeqSum(TorsoSizes(log))

\* Four frames of a jump: the hips go up (y decreases) and then down again, the
\* torso keeps its size, the hips rise by at least 8% of the torso, and the
\* knees are not bent.
JumpScenario(log) ==
    /\ Len(log) = 4
    /\ \A i \in 1 .. 4 :
          /\ HasHeights(log[i])
          /\ log[i].left_knee_angle >= 120 /\ log[i].right_knee_angle >= 120
    /\ \E top \in 2 .. 3 :
          /\ \A i \in 1 .. top - 1 : HipHeight(log[i]) > HipHeight(log[i + 1])
          /\ \A i \in top .. 3 : HipHeight(log[i]) < HipHeight(log[i + 1])
    /\ SteadyTorso(log)
    /\ \E k \in 2 .. 4 :
          (HipHeight(log[1]) - HipHeight(log[k])) * 4 * 100 >= 8 * SeqSum(TorsoSizes(log))

\* C31 as claimed: on a fresh side, the four frames of a jump get the raw label
\* jump exactly once, on the first frame whose hips are above those of the
\* first frame by more than the threshold.
JumpFiresOnce ==
    \A s \in Sides :
        JumpScenario(arrivals[s]) =>
            \E k \in 1 .. 4 :
                /\ \A j \in 1 .. 4 : labels[s][j] = "jump" <=> j = k
                /\ Risen(arrivals[s], 1, k)
                /\ \A j \in 1 .. k - 1 : ~Risen(arrivals[s], 1, j)

\* The frame carries the four heights and two knee angles and nothing else,
\* and the knee angles are within 20 of each other.
HeightsAndKnees(frame) ==
    /\ DOMAIN frame = {"left_hip_y", "right_hip_y", "left_shoulder_y", "right_shoulder_y",
                       "left_knee_angle", "right_knee_angle"}
    /\ Abs(frame.left_knee_angle - frame.right_knee_angle) <= 20

\* C31 as amended: when the four frames of such a jump carry only the heights
\* and two knee angles within 20 of each other, the raw label is not jump on
\* frames 1 and 2, and on frame 3 and on frame 4 it is jump exactly when, over
\* the three frames that end there, the torso varies by less than 15% and the
\* hips of the last frame are above those of the first of the three by more
\* than 8% of the mean torso; so it can be jump on both frames 3 and 4, and
\* on no frame at all.
JumpFiresPerWindow ==
    \A s \in Sides :
        (JumpScenario(arrivals[s]) /\ \A i \in 1 .. 4 : HeightsAndKnees(arrivals[s][i])) =>
            /\ labels[s][1] # "jump" /\ labels[s][2] # "jump"
            /\ \A k \in 3 .. 4 :
                  LET window == SubSeq(arrivals[s], k - 2, k)
                  IN  labels[s][k] = "jump" <=> (SteadyTorso(window) /\ Risen(window, 1, 3))

\* A jump whose third and fourth frame are both labelled jump has been seen.
JumpFiresPerWindowWitness ==
    /\ JumpScenario(arrivals["left"])
    /\ labels["left"] = <<"unknown", "unknown", "jump", "jump">>

\* C32 (the jump example): called on the four frames of jump_frames with no
\* previous action, the classifier returns jump.
JumpExample ==
    (call_result # "pending" /\ call_history = jump_frames /\ call_prev = "none") =>
        call_result = "jump"

\* The frame carries no elbow and no shoulder angle.
NoArmData(frame) ==
    (DOMAIN frame) \cap {"left_elbow_angle", "right_elbow_angle",
                         "left_shoulder_angle", "right_shoulder_angle"} = {}

\* C33 (crouch example): on a fresh side, a first frame with both knee angles
\* below 120 and no elbow or shoulder angle gives raw label crouch, stable
\* label crouch, a remaining hold of 8, a crouch count of 1 and every other
\* count 0.
CrouchExample ==
    \A s \in Sides :
        (/\ Len(arrivals[s]) = 1
         /\ KneesBelow120(arrivals[s][1])
         /\ NoArmData(arrivals[s][1])) =>
            /\ raw_action[s] = "crouch"
            /\ action[s] = "crouch"
            /\ action_buffer[s] = 8
            /\ reps[s] = [a \in Counted |-> IF a = "crouch" THEN 1 ELSE 0]

\* The crouch with knees at 100 and 95 has been the first frame of the left
\* side, the crouch of the example that of the right side.
CrouchExampleWitness ==
    /\ arrivals["left"] = <<KneesOnlyCrouchFrame>>
    /\ arrivals["right"] = crouch_frames
    /\ action["left"] = "crouch"

\* The square of the distance between two landmarks.
Apart(a, b) ==
    (landmarks[a].x - landmarks[b].x) * (landmarks[a].x - landmarks[b].x)
        + (landmarks[a].y - landmarks[b].y) * (landmarks[a].y - landmarks[b].y)

\* C34 (sign of the head turn): when the head turn is computed from shoulders
\* that are apart, it is positive if the nose is nearer to the right shoulder
\* than to the left one, negative if it is nearer to the left shoulder, and 0
\* if it is as near to one as to the other.
HeadTurnSign ==
    (/\ computed
     /\ "head_turn_angle" \in DOMAIN valid_angles
     /\ Apart("left_shoulder", "right_shoulder") > 0) =>
        /\ Apart("nose", "right_shoulder") < Apart("nose", "left_shoulder") =>
              valid_angles["head_turn_angle"] > 0
        /\ Apart("nose", "left_shoulder") < Apart("nose", "right_shoulder") =>
              valid_angles["head_turn_angle"] < 0
        /\ Apart("nose", "left_shoulder") = Apart("nose", "right_shoulder") =>
              valid_angles["head_turn_angle"] = 0

\* C35 (hold and label agree): in every state of a side, a stable label of
\* unknown comes with a remaining hold of 0, a remaining hold above 0 comes
\* with the stable label crouch or mountain_climber, the stable label
\* mountain_climber comes with a remaining hold of at most 2, and the stable
\* labels run and jump come with a remaining hold of 0.
HoldLabelConsistency ==
    \A s \in Sides :
        /\ action[s] = "unknown" => action_buffer[s] = 0
        /\ action_buffer[s] > 0 => action[s] \in {"crouch", "mountain_climber"}
        /\ action[s] = "mountain_climber" => action_buffer[s] <= 2
        /\ action[s] \in {"run", "jump"} => action_buffer[s] = 0

\* A run has replaced a crouch that was still being held, and the hold is gone.
HoldLabelConsistencyWitness ==
    \E s \in Sides :
        /\ action[s] = "run" /\ action_buffer[s] = 0
        /\ last_prev[s] = "crouch"

\* The frames received since the last one that carried angles.
EmptySince(log) ==
    LET filled == {i \in DOMAIN log : DOMAIN log[i] # {}}
        last == IF filled = {} THEN 0 ELSE CHOOSE i \in filled : \A j \in filled : j <= i
    IN  (last + 1) .. Len(log)

\* The last frame of `log` that carried angles was a crouch, and at least one
\* frame without angles has followed it.
CrouchThenEmpty(log) ==
    /\ WithAngles(log) # <<>>
    /\ KneesBelow120(Latest(WithAngles(log)))
    /\ NoArmData(Latest(WithAngles(log)))
    /\ EmptySince(log) # {}

\* C36 (frames without angles): a frame without angles leaves the history of
\* its side as it is, and the raw label is computed again from that history;
\* so when the last frame with angles was a crouch, every later frame gets the
\* raw label crouch, the stable label stays crouch with the full hold, and the
\* crouch count does not rise again.
StaleHistory ==
    /\ [](\A s \in Sides :
            CrouchThenEmpty(arrivals[s]) =>
                /\ \A k \in EmptySince(arrivals[s]) : labels[s][k] = "crouch"
                /\ action[s] = "crouch"
                /\ action_buffer[s] = 8)
    /\ [][\A s \in Sides :
            (Len(arrivals'[s]) > Len(arrivals[s]) /\ DOMAIN Latest(arrivals'[s]) = {}) =>
                /\ angle_history'[s] = angle_history[s]
                /\ raw_action'[s] =
                      IF angle_history[s] = <<>> THEN "unknown"
                      ELSE classify_action_from_history(angle_history[s], prev_action[s])
                /\ CrouchThenEmpty(arrivals[s]) => reps'[s] = reps[s]
                /\ (WithAngles(arrivals[s]) # <<>> /\ action[s] = "crouch"
                        /\ KneesBelow120(Latest(WithAngles(arrivals[s])))
                        /\ NoArmData(Latest(WithAngles(arrivals[s])))) =>
                      (action'[s] = "crouch" /\ reps'[s] = reps[s])]_vars

\* A crouch has been followed by six frames without angles: the label is still
\* crouch, the hold is full and the crouch was counted once.
StaleHistoryWitness ==
    /\ arrivals["left"] = <<CrouchFrame, NoAngles, NoAngles, NoAngles, NoAngles, NoAngles, NoAngles>>
    /\ action["left"] = "crouch"
    /\ reps["left"]["crouch"] = 1

\* C37 (warm-up): while the history of a side holds exactly 1 frame the raw
\* label is crouch, mountain_climber or unknown, and while it holds fewer than
\* 3 frames the raw label is not jump.
WarmUp ==
    \A s \in Sides :
        /\ Len(angle_history[s]) = 1 =>
              raw_action[s] \in {"crouch", "mountain_climber", "unknown"}
        /\ Len(angle_history[s]) < 3 => raw_action[s] # "jump"

\* A side has seen a stride and then the player in the air, higher by more
\* than the jump threshold, with no cooldown, and the raw label of the second
\* frame is unknown.
WarmUpWitness ==
    \E s \in Sides :
        /\ Len(angle_history[s]) = 2
        /\ HasHeights(angle_history[s][1]) /\ HasHeights(angle_history[s][2])
        /\ jump_pattern(angle_history[s])
        /\ ~cooldown_active(angle_history[s], last_prev[s])
        /\ raw_action[s] = "unknown"

\* C38 (delivery of a broadcast): when a call of broadcast has returned, every
\* connection that was on the list from the start of the call to its end, and
\* whose send did not raise, has been sent the message exactly once, whatever
\* connected or disconnected in between; and no connection whose send raised
\* is on the list.
BroadcastDelivery ==
    broadcast_call.pc = "returned" =>
        /\ \A c \in delivery.stayed \ delivery.raised :
              Len(SelectSeq(delivery.sent_to, LAMBDA x : x = c)) = 1
        /\ delivery.raised \cap Members(active_connections) = {}

\* C39 (the realtime classifier): process_frame(None) returns "none" and
\* leaves pose_buffer and current_action as they are; process_frame on a frame
\* appends it to the buffer, which never holds more than buffer_size frames
\* and gives up its oldest, returns "none" while the buffer holds fewer than 3
\* frames and sets current_action to what it returns; reset empties the buffer
\* and sets current_action to "none".
RealtimeFrameEffect ==
    [][/\ (last_call'.method = "process_frame" /\ last_call'.argument = <<>>) =>
            /\ last_call'.returned = "none"
            /\ pose_buffer' = pose_buffer
            /\ current_action' = current_action
       /\ (last_call'.method = "process_frame" /\ last_call'.argument # <<>>) =>
            /\ Len(pose_buffer') <= buffer_size
            /\ pose_buffer' = LastN(Append(pose_buffer, last_call'.argument[1]), buffer_size)
            /\ Len(pose_buffer') < 3 => last_call'.returned = "none"
            /\ current_action' = last_call'.returned
       /\ last_call'.method = "reset" =>
            (pose_buffer' = <<>> /\ current_action' = "none")]_vars

\* process_frame(None) has been called on a full buffer while the current
\* action was crouch.
RealtimeFrameEffectWitness ==
    /\ last_call = [method |-> "process_frame", argument |-> <<>>, returned |-> "none"]
    /\ Len(pose_buffer) = buffer_size
    /\ current_action = "crouch"

====
